---- MODULE Spec2Model ----
(***************************************************************************)
(* Balanced-brace JSON recovery (analyzer.py, scraper_ia_pdf_a_json.py)    *)
(* and the numeric normalizer (cleaner.py) of Smart_Cities_Banorte.        *)
(*                                                                         *)
(* Text is a sequence of one-character strings.  Python values are tagged  *)
(* records: [t |-> "None"], [t |-> "bool"], [t |-> "num"], [t |-> "str"],  *)
(* [t |-> "arr"], [t |-> "obj"] (a dict: a function from keys to values),  *)
(* [t |-> "float"], [t |-> "int"].  Indices into text are 0-based as in    *)
(* the source; s[i+1] reads the character Python calls s[i].               *)
(***************************************************************************)
EXTENDS Integers, Sequences, FiniteSets

VARIABLES json_str, resp_kind, pc, parsed, result, scraped, document,
          prev, num_in, num_out,
          calls, frames,
          state, disk, tr, scored,
          fence_in, fence_out,
          conn, tables, up,
          pdf, sample, manifest, docs, procesados, mem, outputs, yielded, stops,
          ids, monitor, checked,
          entries, entries_file, json_rows, csv_rows, run, effects

\* one response through the recovery and one value through the normalizer
recoveryVars == <<json_str, resp_kind, parsed, result, scraped, document, prev>>

numVars == <<num_in, num_out>>

\* concurrent callers of the two routines: what each caller sees of its
\* call, and the local variables of the calls in progress
callVars == <<calls, frames>>

\* the prompt trainer: self.state, the files it reads and writes, the
\* position and local variables of the running process, and (history, not
\* program state) the scores and prompts of the iterations scored so far
trainVars == <<state, disk, tr, scored>>

\* fence stripping on its own: a raw response and what each of the two
\* clean_json_string routines makes of it before looking for braces
fenceVars == <<fence_in, fence_out>>

\* the Snowflake upload: the session main.py opened, the committed rows of
\* the four tables, and the uploads made so far with the latest result
snowVars == <<conn, tables, up>>

\* the monitoring pipeline of main.py: what kind of document each PDF is,
\* the names in sample_sources/, in manifest.txt and in docs/, the names
\* with an entry in the procesados file and in the dict of the running
\* monitoring loop, the names whose record was appended to the JSON and CSV
\* outputs, (history) the names whose processing returned a record, and
\* the number of times the program was stopped
monVars == <<pdf, sample, manifest, docs, procesados, mem, outputs, yielded, stops>>

\* the parts of the repository modelled after the trainer
\* ExtraerCrearDS.SnowflakeMonitor: the id_proyecto values of the rows of
\* PROYECTOS, the monitor's saved state, and what the latest
\* check_new_records returned
dsVars == <<ids, monitor, checked>>

\* main.py statement by statement: the procesados dict of the running
\* process and the procesados file (name -> status), the number of records
\* each name has in salida_limpia.json and in the CSV output, where the
\* process is in its batch, and (history) the model calls and Snowflake
\* uploads made so far.  The PDFs, sample_sources/, the manifest, docs/
\* and the number of stops are the variables of monVars.
docVars == <<entries, entries_file, json_rows, csv_rows, run, effects>>

laterVars == <<fenceVars, snowVars, monVars, dsVars, docVars>>

\* what the specifications of the recovery and of the normalizer leave alone
otherVars == <<callVars, trainVars, laterVars>>

vars == <<recoveryVars, numVars, pc, callVars, trainVars, laterVars>>

(***************************************************************************)
(* Bounds                                                                  *)
(***************************************************************************)
MaxPieces == 4

MaxCallPieces == 2

MaxWords == 3

\* concurrent callers, and calls each of them makes one after another
MaxCallers == 2

MaxCalls == 2

\* starts of the trainer process, trigger files written, and passes of the
\* training loop that got no response
MaxRuns == 2

\* iterations of one training run
MaxIter == 2

MaxTriggers == 1

MaxIdle == 1
\* pieces of a raw response given to fence stripping
MaxFencePieces == 4
\* records uploaded in one session
MaxUploads == 3
\* PDFs that can be placed in sample_sources/
MaxFiles == 2
\* times the program is stopped with Ctrl+C and started again
MaxStops == 1
\* the largest id_proyecto a row of PROYECTOS gets
MaxId == 4

(***************************************************************************)
(* Python values and call outcomes                                         *)
(***************************************************************************)
PyNone == [t |-> "None"]

Return(v) == [kind |-> "return", val |-> v]

Raise(e) == [kind |-> "raise", exc |-> e]

NotCalled == [kind |-> "pending"]

EmptyDict == [k \in {} |-> PyNone]

DictSet(d, key, v) == [k \in (DOMAIN d) \cup {key} |-> IF k = key THEN v ELSE d[k]]

\* start = None
NoStart == -1

(***************************************************************************)
(* Callers and the frames of their calls                                   *)
(***************************************************************************)
Callers == 1..MaxCallers

\* the local variables of a call that has not started
EmptyFrame == [s |-> <<>>, start |-> NoStart, depth |-> 0, i |-> 0]

\* a caller between calls
NoCall == [op |-> "none", arg |-> PyNone, at |-> "idle", ret |-> NotCalled,
           n |-> 0]

CallsIdle ==
    /\ calls = [c \in Callers |-> NoCall]
    /\ frames = [c \in Callers |-> EmptyFrame]

(***************************************************************************)
(* MainEntrenamientoForzado.PromptTrainer: constants, values and files     *)
(***************************************************************************)
MAX_PROMPT_CHARS == 2000

\* train's max_iter: main() and continuous_mode pass MAX_ITERATIONS, which
\* the source sets to 20; the model runs the loop with MaxIter iterations
MAX_ITERATIONS == MaxIter

\* len(PROMPT_ANCHOR); the anchor begins and ends with a newline
AnchorLen == 346

\* A prompt is kept as what the trainer looks at: its length, whether it
\* contains "REGLAS FUNDAMENTALES", and its leading and trailing whitespace;
\* id tells the prompts of different responses apart.
Prompt(id, chars, anchor, lead, trail) ==
    [id |-> id, chars |-> chars, anchor |-> anchor, lead |-> lead, trail |-> trail]

\* INITIAL_PROMPT of main()
InitialPrompt == Prompt("initial", 420, FALSE, 1, 1)

\* None where a prompt is expected
NoPrompt == Prompt("None", 0, FALSE, 0, 0)

NoFile == [kind |-> "absent"]

\* load_state's default
DefaultState ==
    [current_iteration |-> 0, best_iteration |-> 0, best_score |-> 0,
     retrains_completed |-> 0]

\* the local variables of a trainer process that is not running
NoTrainer ==
    [mode |-> "none", by_trigger |-> FALSE, current |-> NoPrompt,
     iteration |-> 0, first |-> 0, idle |-> 0, ret |-> NotCalled,
     new_prompt |-> NoPrompt, parsed |-> PyNone, runs |-> 0, triggers |-> 0]

NoDisk == [state_file |-> NoFile, best |-> NoFile, latest |-> NoFile,
           trigger |-> FALSE]

\* no iteration scored yet
NoneScored == [n |-> 0, max |-> 0, prompts |-> {}]

TrainerIdle ==
    /\ state = DefaultState
    /\ disk = NoDisk
    /\ tr = NoTrainer
    /\ scored = NoneScored

\* no routine has stripped fence_in yet
NoStripped == [analyzer |-> NotCalled, scraper |-> NotCalled]

FenceIdle ==
    /\ fence_in = <<>>
    /\ fence_out = NoStripped

\* the four tables of an upload, in the order of the INSERT statements
TableNames == <<"PROYECTOS", "FINANZAS", "IMPACTO_SOCIAL", "EVALUACIONES">>

NoConn == [open |-> FALSE, autocommit |-> FALSE]

NoRows == [t \in {TableNames[k] : k \in 1..Len(TableNames)} |-> {}]

NoUpload == [n |-> 0, ret |-> NotCalled]

SnowIdle ==
    /\ conn = NoConn
    /\ tables = NoRows
    /\ up = NoUpload

\* the names of the PDFs
Files == 1..MaxFiles

\* what process_single_document makes of a PDF: a record, too little text
\* (lines 163-171), or an exception on the way
Kinds == {"record", "short", "raises"}

MonIdle ==
    /\ pdf = [f \in Files |-> "record"]
    /\ sample = {}
    /\ manifest = {}
    /\ docs = {}
    /\ procesados = {}
    /\ mem = {}
    /\ outputs = {}
    /\ yielded = {}
    /\ stops = 0

\* load_state without a state file, ExtraerCrearDS.py lines 55-60
NoMonitorState == [last_id_proyecto |-> 0, retrains_triggered |-> 0]

DsIdle ==
    /\ ids = {}
    /\ monitor = NoMonitorState
    /\ checked = NotCalled

\* a dict without entries
NoEntries == [f \in {} |-> "none"]

\* the process is not running
NotRunning == [loop |-> "none", queue |-> <<>>, at |-> "off", skipped |-> 0]

NoEffects == [model_calls |-> 0, uploads |-> 0]

DocIdle ==
    /\ entries = NoEntries
    /\ entries_file = NoEntries
    /\ json_rows = [f \in Files |-> 0]
    /\ csv_rows = [f \in Files |-> 0]
    /\ run = NotRunning
    /\ effects = NoEffects

LaterIdle == FenceIdle /\ SnowIdle /\ MonIdle /\ DsIdle /\ DocIdle

OthersIdle == CallsIdle /\ TrainerIdle /\ LaterIdle

\* the recovery and the normalizer at rest
BaseIdle ==
    /\ json_str = <<>>
    /\ resp_kind = "text"
    /\ parsed = NotCalled
    /\ result = NotCalled
    /\ scraped = NotCalled
    /\ document = NotCalled
    /\ prev = NotCalled
    /\ num_in = PyNone
    /\ num_out = NotCalled

\* s[:n]
Take(s, n) == SubSeq(s, 1, IF Len(s) < n THEN Len(s) ELSE n)

\* s[n:]
Drop(s, n) == SubSeq(s, n + 1, Len(s))

StartsWithAt(s, i, w) ==
    /\ i + Len(w) <= Len(s)
    /\ \A k \in 1..Len(w) : s[i + k] = w[k]

(***************************************************************************)
(* json.loads: a strict JSON decoder over the characters of the model.     *)
(* A decoding step yields [ok, val, pos]; pos is the 0-based index of the  *)
(* first character not consumed.  ok = FALSE stands for JSONDecodeError.   *)
(***************************************************************************)
JsonWs == {" ", "\t", "\n", "\r"}

Digits == {"0", "1", "2", "3", "4", "5", "6", "7", "8", "9"}

DigitVal(c) ==
    CASE c = "0" -> 0 [] c = "1" -> 1 [] c = "2" -> 2 [] c = "3" -> 3
      [] c = "4" -> 4 [] c = "5" -> 5 [] c = "6" -> 6 [] c = "7" -> 7
      [] c = "8" -> 8 [] c = "9" -> 9

DecodeError == [ok |-> FALSE, val |-> PyNone, pos |-> 0]

Decoded(v, p) == [ok |-> TRUE, val |-> v, pos |-> p]

RECURSIVE SkipWs(_, _)
SkipWs(s, i) ==
    IF i < Len(s) /\ s[i + 1] \in JsonWs THEN SkipWs(s, i + 1) ELSE i

\* the characters of a run of digits starting at index i
RECURSIVE DigitRun(_, _)
DigitRun(s, i) ==
    IF i < Len(s) /\ s[i + 1] \in Digits
    THEN <<s[i + 1]>> \o DigitRun(s, i + 1)
    ELSE <<>>

RECURSIVE DigitsToInt(_)
DigitsToInt(ds) ==
    IF ds = <<>> THEN 0
    ELSE 10 * DigitsToInt(SubSeq(ds, 1, Len(ds) - 1)) + DigitVal(ds[Len(ds)])

RECURSIVE StripTrailingZeros(_)
StripTrailingZeros(ds) ==
    IF ds # <<>> /\ ds[Len(ds)] = "0"
    THEN StripTrailingZeros(SubSeq(ds, 1, Len(ds) - 1))
    ELSE ds

\* a number is kept exactly: sign * n / 10^d with the fraction in lowest
\* decimal form, so that 1 and 1.0 are the same value as they are in Python
NumValue(neg, ip, fp) ==
    LET f == StripTrailingZeros(fp)
        n == DigitsToInt(ip \o f)
    IN  [t |-> "num", n |-> IF neg THEN 0 - n ELSE n, d |-> Len(f)]

\* -?(0|[1-9][0-9]*)(\.[0-9]+)?   (exponents are outside the alphabet)
ScanNumber(s, i) ==
    LET neg == i < Len(s) /\ s[i + 1] = "-"
        j   == IF neg THEN i + 1 ELSE i
        ip  == DigitRun(s, j)
        ipl == IF ip # <<>> /\ ip[1] = "0" THEN 1 ELSE Len(ip)
        k   == j + ipl
        fp  == IF k < Len(s) /\ s[k + 1] = "." THEN DigitRun(s, k + 1) ELSE <<>>
    IN  IF ip = <<>> THEN DecodeError
        ELSE IF fp = <<>> THEN Decoded(NumValue(neg, SubSeq(ip, 1, ipl), <<>>), k)
        ELSE Decoded(NumValue(neg, SubSeq(ip, 1, ipl), fp), k + 1 + Len(fp))

EscapeOf(c) ==
    CASE c = "n" -> "\n" [] c = "t" -> "\t" [] c = "r" -> "\r"
      [] c = "b" -> "\\b" [] c = "f" -> "\\f" [] OTHER -> c

\* the body of a string, i just past the opening quote
RECURSIVE ScanString(_, _, _)
ScanString(s, i, acc) ==
    IF i >= Len(s) THEN DecodeError
    ELSE IF s[i + 1] = "\"" THEN Decoded([t |-> "str", v |-> acc], i + 1)
    ELSE IF s[i + 1] \in {"\n", "\t", "\r"} THEN DecodeError
    ELSE IF s[i + 1] = "\\"
         THEN IF i + 1 < Len(s) /\ s[i + 2] \in {"\"", "\\", "/", "b", "f", "n", "r", "t"}
              THEN ScanString(s, i + 2, Append(acc, EscapeOf(s[i + 2])))
              ELSE DecodeError
    ELSE ScanString(s, i + 1, Append(acc, s[i + 1]))

RECURSIVE ScanValue(_, _)
RECURSIVE ScanMembers(_, _, _)
RECURSIVE ScanElements(_, _, _)

\* i at the first character of a value
ScanValue(s, i) ==
    IF i >= Len(s) THEN DecodeError
    ELSE IF s[i + 1] = "\"" THEN ScanString(s, i + 1, <<>>)
    ELSE IF s[i + 1] = "{"
         THEN LET j == SkipWs(s, i + 1)
              IN  IF j < Len(s) /\ s[j + 1] = "}"
                  THEN Decoded([t |-> "obj", v |-> EmptyDict], j + 1)
                  ELSE ScanMembers(s, j, EmptyDict)
    ELSE IF s[i + 1] = "["
         THEN LET j == SkipWs(s, i + 1)
              IN  IF j < Len(s) /\ s[j + 1] = "]"
                  THEN Decoded([t |-> "arr", v |-> <<>>], j + 1)
                  ELSE ScanElements(s, j, <<>>)
    ELSE IF StartsWithAt(s, i, <<"n", "u", "l", "l">>) THEN Decoded(PyNone, i + 4)
    ELSE IF StartsWithAt(s, i, <<"t", "r", "u", "e">>)
         THEN Decoded([t |-> "bool", v |-> TRUE], i + 4)
    ELSE IF StartsWithAt(s, i, <<"f", "a", "l", "s", "e">>)
         THEN Decoded([t |-> "bool", v |-> FALSE], i + 5)
    ELSE ScanNumber(s, i)

\* i at the opening quote of a key; a repeated key keeps its last value
ScanMembers(s, i, acc) ==
    IF ~(i < Len(s) /\ s[i + 1] = "\"") THEN DecodeError
    ELSE LET key == ScanString(s, i + 1, <<>>)
         IN  IF ~key.ok THEN DecodeError
             ELSE LET c == SkipWs(s, key.pos)
                  IN  IF ~(c < Len(s) /\ s[c + 1] = ":") THEN DecodeError
                      ELSE LET v == ScanValue(s, SkipWs(s, c + 1))
                           IN  IF ~v.ok THEN DecodeError
                               ELSE LET e  == SkipWs(s, v.pos)
                                        d2 == DictSet(acc, key.val.v, v.val)
                                    IN  IF e >= Len(s) THEN DecodeError
                                        ELSE IF s[e + 1] = "}"
                                             THEN Decoded([t |-> "obj", v |-> d2], e + 1)
                                        ELSE IF s[e + 1] = ","
                                             THEN ScanMembers(s, SkipWs(s, e + 1), d2)
                                        ELSE DecodeError

ScanElements(s, i, acc) ==
    LET v == ScanValue(s, i)
    IN  IF ~v.ok THEN DecodeError
        ELSE LET e == SkipWs(s, v.pos)
             IN  IF e >= Len(s) THEN DecodeError
                 ELSE IF s[e + 1] = "]"
                      THEN Decoded([t |-> "arr", v |-> Append(acc, v.val)], e + 1)
                 ELSE IF s[e + 1] = ","
                      THEN ScanElements(s, SkipWs(s, e + 1), Append(acc, v.val))
                 ELSE DecodeError

\* json.loads(s): one value, surrounded by optional whitespace, nothing else
json_loads(s) ==
    LET v == ScanValue(s, SkipWs(s, 0))
    IN  IF v.ok /\ SkipWs(s, v.pos) = Len(s) THEN v ELSE DecodeError

(***************************************************************************)
(* Text helpers: str.strip(), re.sub of the fence markers                  *)
(***************************************************************************)
PyWs == JsonWs \cup {"\f"}

RECURSIVE LStrip(_)
LStrip(s) == IF s # <<>> /\ s[1] \in PyWs THEN LStrip(Drop(s, 1)) ELSE s

RECURSIVE RStrip(_)
RStrip(s) ==
    IF s # <<>> /\ s[Len(s)] \in PyWs THEN RStrip(Take(s, Len(s) - 1)) ELSE s

Strip(s) == RStrip(LStrip(s))

\* the grave accent U+0060, which a TLA+ string cannot hold
BackTick == "BACKTICK"

Fence == <<BackTick, BackTick, BackTick>>

FenceJson == Fence \o <<"j", "s", "o", "n">>

\* the number of whitespace characters from index i on
RECURSIVE WsRun(_, _)
WsRun(s, i) == IF i < Len(s) /\ s[i + 1] \in PyWs THEN 1 + WsRun(s, i + 1) ELSE 0

\* re.sub of the pattern FenceJson|Fence by the empty string: leftmost match
\* first, FenceJson tried before Fence
RECURSIVE SubFences(_, _)
SubFences(s, i) ==
    IF i >= Len(s) THEN <<>>
    ELSE IF StartsWithAt(s, i, FenceJson) THEN SubFences(s, i + 7)
    ELSE IF StartsWithAt(s, i, Fence) THEN SubFences(s, i + 3)
    ELSE <<s[i + 1]>> \o SubFences(s, i + 1)

\* re.sub(w + r"\s*", "", s)
RECURSIVE SubMarkerWs(_, _, _)
SubMarkerWs(s, i, w) ==
    IF i >= Len(s) THEN <<>>
    ELSE IF StartsWithAt(s, i, w)
         THEN SubMarkerWs(s, i + Len(w) + WsRun(s, i + Len(w)), w)
    ELSE <<s[i + 1]>> \o SubMarkerWs(s, i + 1, w)

\* analyzer.py line 25
AnalyzerStripped(json_str_) == Strip(SubFences(json_str_, 0))

\* scraper_ia_pdf_a_json.py lines 107-109
ScraperStripped(json_str_) ==
    Strip(SubMarkerWs(SubMarkerWs(json_str_, 0, FenceJson), 0, Fence))

(***************************************************************************)
(* analyzer.clean_json_string                                              *)
(***************************************************************************)
\* The for loop of lines 28-41 from index i on.  tried lists the candidate
\* spans <<start, i>> handed to json.loads, in order.
RECURSIVE AnalyzerScan(_, _, _, _, _)
AnalyzerScan(s, i, start, depth, tried) ==
    IF i >= Len(s)
    THEN [returned |-> FALSE, val |-> PyNone, tried |-> tried,
          start |-> start, depth |-> depth]
    ELSE IF s[i + 1] = "{"
         THEN AnalyzerScan(s, i + 1, IF start = NoStart THEN i ELSE start,
                           depth + 1, tried)
    ELSE IF s[i + 1] = "}"
         THEN IF depth - 1 = 0 /\ start # NoStart
              THEN LET candidate == SubSeq(s, start + 1, i + 1)
                       loaded    == json_loads(candidate)
                   IN  IF loaded.ok
                       THEN [returned |-> TRUE, val |-> loaded.val,
                             tried |-> Append(tried, <<start, i>>),
                             start |-> start, depth |-> 0]
                       ELSE AnalyzerScan(s, i + 1, NoStart, 0,
                                         Append(tried, <<start, i>>))
              ELSE AnalyzerScan(s, i + 1, start, depth - 1, tried)
    ELSE AnalyzerScan(s, i + 1, start, depth, tried)

\* the fallback without its try/except
AnalyzerFallbackUnguarded(s) ==
    LET loaded == json_loads(s)
    IN  IF loaded.ok THEN Return(loaded.val) ELSE Raise("JSONDecodeError")

\* lines 42-46: json.loads(s) inside try/except Exception
AnalyzerFallback(s) ==
    LET loaded == json_loads(s)
    IN  IF loaded.ok THEN Return(loaded.val) ELSE Return(PyNone)

clean_json_string(json_str_) ==
    IF json_str_ = <<>> THEN Return(PyNone)
    ELSE LET s    == AnalyzerStripped(json_str_)
             scan == AnalyzerScan(s, 0, NoStart, 0, <<>>)
         IN  IF scan.returned THEN Return(scan.val) ELSE AnalyzerFallback(s)

PreviewLen == 1000

\* lines 107-109 without the test for None
AnalyzeNoJsonUnchecked(parsed_, raw) == parsed_

\* lines 107-109: a None from clean_json_string becomes the error mapping
AnalyzeNoJson(parsed_, raw) ==
    IF parsed_.kind = "return" /\ parsed_.val = PyNone
    THEN Return([t |-> "dict", error |-> "llm_no_json",
                 raw_preview |-> Take(raw, PreviewLen)])
    ELSE parsed_

\* kind is what the generation call did: a text, an exception, or no model
analyze_with_gemini(kind, text) ==
    IF kind = "no_model" THEN Return(PyNone)
    ELSE IF kind = "exception"
         THEN Return([t |-> "dict", error |-> "llm_exception", raw_preview |-> <<>>])
    ELSE LET parsed_ == clean_json_string(text)
         IN  IF parsed_.kind = "raise"
             THEN Return([t |-> "dict", error |-> "llm_exception", raw_preview |-> <<>>])
             ELSE AnalyzeNoJson(parsed_, text)

(***************************************************************************)
(* scraper_ia_pdf_a_json.clean_json_string                                 *)
(***************************************************************************)
\* The for loop of lines 120-132; stack is the height of the stack.  tried
\* lists the candidate spans <<start_idx, i>> handed to json.loads, in order.
RECURSIVE ScraperScan(_, _, _, _, _)
ScraperScan(s, i, start_idx, stack, tried) ==
    IF i >= Len(s) THEN [returned |-> FALSE, val |-> PyNone, tried |-> tried]
    ELSE IF s[i + 1] = "{"
         THEN ScraperScan(s, i + 1, IF stack = 0 THEN i ELSE start_idx,
                          stack + 1, tried)
    ELSE IF s[i + 1] = "}"
         THEN IF stack > 0
              THEN IF stack - 1 = 0 /\ start_idx # -1
                   THEN LET loaded == json_loads(SubSeq(s, start_idx + 1, i + 1))
                        IN  IF loaded.ok
                            THEN [returned |-> TRUE, val |-> loaded.val,
                                  tried |-> Append(tried, <<start_idx, i>>)]
                            ELSE ScraperScan(s, i + 1, start_idx, 0,
                                             Append(tried, <<start_idx, i>>))
                   ELSE ScraperScan(s, i + 1, start_idx, stack - 1, tried)
              ELSE ScraperScan(s, i + 1, start_idx, stack, tried)
    ELSE ScraperScan(s, i + 1, start_idx, stack, tried)

scraper_clean_json_string(json_str_) ==
    LET s     == ScraperStripped(json_str_)
        whole == json_loads(s)
    IN  IF whole.ok THEN Return(whole.val)
        ELSE LET scan == ScraperScan(s, 0, -1, 0, <<>>)
             IN  IF scan.returned THEN Return(scan.val)
                 ELSE Raise("JSONDecodeError")

DocPreviewLen == 300

\* lines 146-151: except json.JSONDecodeError
DocumentHandler(out, output) ==
    IF out.kind = "raise"
    THEN Return([t |-> "dict", error |-> "JSON invalido",
                 raw_preview |-> Take(output, DocPreviewLen)])
    ELSE out

analyze_document(kind, text) ==
    IF kind # "text"
    THEN Return([t |-> "dict", error |-> "exception", raw_preview |-> <<>>])
    ELSE LET output == Strip(text)
         IN  DocumentHandler(scraper_clean_json_string(output), output)

(***************************************************************************)
(* Response texts: up to MaxPieces fragments of model output               *)
(***************************************************************************)
ObjA == <<"{", "\"", "a", "\"", ":", " ", "1", "}">>

ObjEmpty == <<"{", "}">>

OpenStr == <<"{", "\"", "a", "\"", ":", " ", "\"", "}">>

CloseStr == <<"\"", "}">>

Pieces == {ObjA, ObjEmpty, <<"{">>, <<"}">>, FenceJson, Fence, OpenStr,
           CloseStr, <<"1">>}

RECURSIVE Flatten(_)
Flatten(ps) == IF ps = <<>> THEN <<>> ELSE ps[1] \o Flatten(Tail(ps))

PieceSeqs(n) == UNION {[1..k -> Pieces] : k \in 0..n}

Texts(n) == {Flatten(ps) : ps \in PieceSeqs(n)}

(***************************************************************************)
(* Specification of one recovery: the response text goes through both     *)
(* implementations and their callers                                       *)
(***************************************************************************)
NumIdle == [t |-> "None"]

Init ==
    /\ \/ resp_kind = "text" /\ json_str \in Texts(MaxPieces)
       \/ resp_kind \in {"exception", "no_model"} /\ json_str = <<>>
    /\ pc = "ready"
    /\ parsed = NotCalled
    /\ result = NotCalled
    /\ scraped = NotCalled
    /\ document = NotCalled
    /\ prev = NotCalled
    /\ num_in = NumIdle
    /\ num_out = NotCalled
    /\ OthersIdle

CleanJsonString ==
    /\ pc = "ready"
    /\ parsed' = clean_json_string(json_str)
    /\ pc' = "cleaned"
    /\ UNCHANGED <<json_str, resp_kind, result, scraped, document, prev, num_in, num_out, otherVars>>

AnalyzeWithGemini ==
    /\ pc = "cleaned"
    /\ result' = analyze_with_gemini(resp_kind, json_str)
    /\ pc' = "analyzed"
    /\ UNCHANGED <<json_str, resp_kind, parsed, scraped, document, prev, num_in, num_out, otherVars>>

ScraperCleanJsonString ==
    /\ pc = "analyzed"
    /\ scraped' = scraper_clean_json_string(json_str)
    /\ pc' = "scraped"
    /\ UNCHANGED <<json_str, resp_kind, parsed, result, document, prev, num_in, num_out, otherVars>>

AnalyzeDocument ==
    /\ pc = "scraped"
    /\ document' = analyze_document(resp_kind, json_str)
    /\ pc' = "done"
    /\ UNCHANGED <<json_str, resp_kind, parsed, result, scraped, prev, num_in, num_out, otherVars>>

Next ==
    \/ CleanJsonString
    \/ AnalyzeWithGemini
    \/ ScraperCleanJsonString
    \/ AnalyzeDocument

Spec == Init /\ [][Next]_vars

(***************************************************************************)
(* Specification of successive recoveries: the pipeline hands one response *)
(* after another to analyze_with_gemini; prev remembers the latest failed  *)
(* recovery before the current one                                         *)
(***************************************************************************)
\* net number of open braces in the first k characters of s
RECURSIVE BraceCount(_, _)
BraceCount(s, k) ==
    IF k = 0 THEN 0
    ELSE BraceCount(s, k - 1)
         + (IF s[k] = "{" THEN 1 ELSE IF s[k] = "}" THEN -1 ELSE 0)

\* candidate spans as the glossary defines them: <<a, b>> (0-based,
\* inclusive) from a brace opened at depth zero to the first closing brace
\* at which the depth is zero again
GlossarySpans(s) ==
    {sp \in (0..(Len(s) - 1)) \X (0..(Len(s) - 1)) :
        /\ sp[1] < sp[2]
        /\ s[sp[1] + 1] = "{"
        /\ BraceCount(s, sp[1]) = 0
        /\ BraceCount(s, sp[2] + 1) = 0
        /\ \A j \in (sp[1] + 1)..sp[2] : BraceCount(s, j) # 0}

SpanText(s, sp) == SubSeq(s, sp[1] + 1, sp[2] + 1)

ParsingSpans(s) == {sp \in GlossarySpans(s) : json_loads(SpanText(s, sp)).ok}

Leftmost(spans) == CHOOSE sp \in spans : \A o \in spans : sp[1] <= o[1]

HasOpenBrace(s) == \E k \in 1..Len(s) : s[k] = "{"

\* the three failure causes of the error taxonomy
FailureCause(s) ==
    IF ~HasOpenBrace(s) THEN "NoJsonFound"
    ELSE IF GlossarySpans(s) = {} THEN "UnbalancedBraces"
    ELSE "MalformedJson"

Failed(out) == out.kind = "return" /\ out.val = PyNone

\* what a caller reads from an outcome besides the echoed text
ErrorTag(out) ==
    IF out.kind = "return" /\ out.val.t = "dict" THEN out.val.error ELSE "ok"

CallPieces == {ObjEmpty, <<"{">>, <<"}">>, Fence, OpenStr}

CallTexts(n) == {Flatten(ps) : ps \in UNION {[1..k -> CallPieces] : k \in 0..n}}

InitCalls ==
    /\ json_str = <<>>
    /\ resp_kind = "text"
    /\ pc = "idle"
    /\ parsed = NotCalled
    /\ result = NotCalled
    /\ scraped = NotCalled
    /\ document = NotCalled
    /\ prev = NotCalled
    /\ num_in = NumIdle
    /\ num_out = NotCalled
    /\ OthersIdle

RecoverCall ==
    /\ pc \in {"idle", "called"}
    /\ \E text \in CallTexts(MaxCallPieces) :
          /\ json_str' = text
          /\ parsed' = clean_json_string(text)
          /\ result' = analyze_with_gemini("text", text)
    /\ prev' = IF pc = "called" /\ Failed(parsed)
               THEN [kind |-> "failed",
                     cause |-> FailureCause(AnalyzerStripped(json_str)),
                     parsed |-> parsed, error |-> ErrorTag(result)]
               ELSE prev
    /\ pc' = "called"
    /\ UNCHANGED <<resp_kind, scraped, document, num_in, num_out, otherVars>>

NextCalls == RecoverCall

SpecCalls == InitCalls /\ [][NextCalls]_vars

(***************************************************************************)
(* cleaner.to_number_simple                                                *)
(* A float is kept as the exact decimal n / 10^d with n free of trailing    *)
(* zeros (d is negative for multiples of ten); binary rounding of float    *)
(* arithmetic is not represented.                                          *)
(***************************************************************************)
RECURSIVE Float(_, _)
Float(n, d) ==
    IF n = 0 THEN [t |-> "float", n |-> 0, d |-> 0]
    ELSE IF n % 10 = 0 THEN Float(n \div 10, d - 1)
    ELSE [t |-> "float", n |-> n, d |-> d]

\* x * 10^k for a float x
TimesPow10(x, k) == Float(x.n, x.d - k)

\* the number of decimal digits of |n|
RECURSIVE NumDigits(_)
NumDigits(n) ==
    IF n < 0 THEN NumDigits(-n)
    ELSE IF n < 10 THEN 1
    ELSE 1 + NumDigits(n \div 10)

RECURSIVE Pow10(_)
Pow10(k) == IF k = 0 THEN 1 ELSE 10 * Pow10(k - 1)

\* the largest float is 1.7976931348623157e308: 309 digits before the point,
\* the leading nine of them 179769313
FloatMaxDigits == 309

FloatMaxLead == 179769313

LeadDigits == 9

\* float(i) of an int i = n * 10^(-d) beyond the float range raises
\* OverflowError; n has at most LeadDigits digits in this model, which
\* makes the comparison with the leading digits of the largest float exact
IntTooLarge(x) ==
    LET abs == IF x.n < 0 THEN -x.n ELSE x.n
        len == NumDigits(abs) - x.d
    IN  /\ x.t = "int"
        /\ abs # 0
        /\ \/ len > FloatMaxDigits
           \/ /\ len = FloatMaxDigits
              /\ abs * Pow10(LeadDigits - NumDigits(abs)) > FloatMaxLead

\* float(s) for an int or a float
PyFloat(x) ==
    IF IntTooLarge(x) THEN Raise("OverflowError") ELSE Return(Float(x.n, x.d))

LowerChar(c) ==
    CASE c = "A" -> "a" [] c = "B" -> "b" [] c = "C" -> "c" [] c = "D" -> "d"
      [] c = "E" -> "e" [] c = "F" -> "f" [] c = "G" -> "g" [] c = "H" -> "h"
      [] c = "I" -> "i" [] c = "J" -> "j" [] c = "K" -> "k" [] c = "L" -> "l"
      [] c = "M" -> "m" [] c = "N" -> "n" [] c = "O" -> "o" [] c = "P" -> "p"
      [] c = "Q" -> "q" [] c = "R" -> "r" [] c = "S" -> "s" [] c = "T" -> "t"
      [] c = "U" -> "u" [] c = "V" -> "v" [] c = "W" -> "w" [] c = "X" -> "x"
      [] c = "Y" -> "y" [] c = "Z" -> "z" [] OTHER -> c

Lower(s) == [k \in 1..Len(s) |-> LowerChar(s[k])]

RECURSIVE RemoveCommas(_)
RemoveCommas(s) ==
    IF s = <<>> THEN <<>>
    ELSE IF s[1] = "," THEN RemoveCommas(Tail(s))
    ELSE <<s[1]>> \o RemoveCommas(Tail(s))

\* line 9: str(s).lower().replace(",", "").strip()
NormalizeText(s) == Strip(RemoveCommas(Lower(s)))

Sentinels == {<<>>, <<"n", "u", "l", "l">>, <<"n", "o", "n", "e">>, <<"-">>}

\* the group (\d+(\.\d+)?) matched greedily at index i: the digits before
\* and after the point, and the index after the match
NumberAt(s, i) ==
    LET ip == DigitRun(s, i)
        k  == i + Len(ip)
        fp == IF k < Len(s) /\ s[k + 1] = "." THEN DigitRun(s, k + 1) ELSE <<>>
    IN  [ok |-> ip # <<>>, ip |-> ip, fp |-> fp,
         end |-> IF fp = <<>> THEN k ELSE k + 1 + Len(fp)]

\* float(m.group(1))
GroupFloat(m) == Float(DigitsToInt(m.ip \o m.fp), Len(m.fp))

\* (\d+(\.\d+)?)\s*word matched at index i; giving back digits or the
\* fraction never lets the rest match, so the greedy attempt decides
MatchAt(s, i, word) ==
    LET m == NumberAt(s, i)
    IN  m.ok /\ StartsWithAt(s, m.end + WsRun(s, m.end), word)

\* re.search: the match at the least index, NoMatch when there is none
NoMatch == [ok |-> FALSE, ip |-> <<>>, fp |-> <<>>, end |-> 0]

RECURSIVE SearchFrom(_, _, _)
SearchFrom(s, i, word) ==
    IF i >= Len(s) THEN NoMatch
    ELSE IF MatchAt(s, i, word) THEN NumberAt(s, i)
    ELSE SearchFrom(s, i + 1, word)

Mill == <<"m", "i", "l", "l">>

Mil == <<"m", "i", "l">>

\* lines 7-8: float(s)
NumericPassthrough(x) == PyFloat(x)

\* lines 12-21 with the "mil" rule tried before the "mill" rule
MagnitudeRulesMilFirst(s) ==
    LET k == SearchFrom(s, 0, Mil)
        m == SearchFrom(s, 0, Mill)
        d == SearchFrom(s, 0, <<>>)
    IN  IF k.ok THEN TimesPow10(GroupFloat(k), 3)
        ELSE IF m.ok THEN TimesPow10(GroupFloat(m), 6)
        ELSE IF d.ok THEN GroupFloat(d)
        ELSE PyNone

\* lines 12-21 on the normalized text
MagnitudeRules(s) ==
    LET m == SearchFrom(s, 0, Mill)
        k == SearchFrom(s, 0, Mil)
        d == SearchFrom(s, 0, <<>>)
    IN  IF m.ok THEN TimesPow10(GroupFloat(m), 6)
        ELSE IF k.ok THEN TimesPow10(GroupFloat(k), 3)
        ELSE IF d.ok THEN GroupFloat(d)
        ELSE PyNone

to_number_simple(x) ==
    IF x = PyNone THEN Return(PyNone)
    ELSE IF x.t \in {"int", "float"} THEN NumericPassthrough(x)
    ELSE LET s == NormalizeText(x.v)
         IN  IF s \in Sentinels THEN Return(PyNone)
             ELSE Return(MagnitudeRules(s))

(***************************************************************************)
(* Specification of one normalization: a field value of a record goes     *)
(* through to_number_simple                                                *)
(***************************************************************************)
Words == {<<"1", "5">>, <<".", "5">>, <<" ">>, Mil, Mill, <<"M", "I", "L">>,
          <<",">>, <<"n", "u", "l", "l">>, <<"N", "o", "n", "e">>, <<"-">>,
          <<"x">>}

WordTexts(n) == {Flatten(ws) : ws \in UNION {[1..k -> Words] : k \in 0..n}}

\* a number is n / 10^d; an int has d <= 0, and the last two ints are
\* 10^308 and 2 * 10^308, either side of the largest float
Numbers == {[t |-> "int", n |-> 7, d |-> 0], [t |-> "int", n |-> -7, d |-> 0],
            [t |-> "int", n |-> 0, d |-> 0], [t |-> "float", n |-> 15, d |-> 1],
            [t |-> "float", n |-> -25, d |-> 1],
            [t |-> "int", n |-> 1, d |-> -308], [t |-> "int", n |-> 2, d |-> -308]}

NumInputs ==
    {PyNone} \cup Numbers \cup {[t |-> "str", v |-> w] : w \in WordTexts(MaxWords)}

InitNum ==
    /\ num_in \in NumInputs
    /\ num_out = NotCalled
    /\ pc = "num_ready"
    /\ json_str = <<>>
    /\ resp_kind = "text"
    /\ parsed = NotCalled
    /\ result = NotCalled
    /\ scraped = NotCalled
    /\ document = NotCalled
    /\ prev = NotCalled
    /\ OthersIdle

ToNumberSimple ==
    /\ pc = "num_ready"
    /\ num_out' = to_number_simple(num_in)
    /\ pc' = "num_done"
    /\ UNCHANGED <<num_in, json_str, resp_kind, parsed, result, scraped, document, prev, otherVars>>

NextNum == ToNumberSimple

SpecNum == InitNum /\ [][NextNum]_vars

(***************************************************************************)
(* Specification of concurrent callers: each caller runs                   *)
(* analyzer.clean_json_string or to_number_simple statement by statement,  *)
(* one call after another, interleaved with the other callers.  The local  *)
(* variables s, start, depth, i of a call live in the frame of that call.  *)
(***************************************************************************)
\* module-level variables in place of locals: one frame for all calls
FrameOfShared(c) == 1

\* the frame holding the local variables of caller c's call in progress
FrameOf(c) == c

CallInputs ==
    {[op |-> "clean", arg |-> [t |-> "str", v |-> w]] :
        w \in {<<>>, ObjEmpty, <<"}", "{">> \o ObjEmpty, <<"1">>}}
    \cup
    {[op |-> "num", arg |-> a] :
        a \in {PyNone, [t |-> "int", n |-> 7, d |-> 0],
               [t |-> "str", v |-> <<"1", "5", " ">> \o Mil],
               [t |-> "str", v |-> <<"-">>], [t |-> "str", v |-> <<"x", "5">>]}}

InitConc ==
    /\ CallsIdle
    /\ pc = "callers"
    /\ BaseIdle
    /\ TrainerIdle
    /\ LaterIdle

Finish(c, out) ==
    calls' = [calls EXCEPT ![c].ret = out, ![c].at = "done"]

Goto(c, label) == calls' = [calls EXCEPT ![c].at = label]

\* a caller enters one of the two routines with an argument
Call(c) ==
    /\ calls[c].at \in {"idle", "done"}
    /\ calls[c].n < MaxCalls
    /\ \E inp \in CallInputs :
          calls' = [calls EXCEPT ![c] = [op |-> inp.op, arg |-> inp.arg,
                                         at |-> "enter", ret |-> NotCalled,
                                         n |-> @.n + 1]]
    /\ frames' = [frames EXCEPT ![FrameOf(c)] = EmptyFrame]
    /\ UNCHANGED <<recoveryVars, numVars, pc, trainVars, laterVars>>

\* analyzer.py lines 23-27
CleanEnter(c) ==
    /\ calls[c].op = "clean" /\ calls[c].at = "enter"
    /\ IF calls[c].arg.v = <<>>
       THEN Finish(c, Return(PyNone)) /\ UNCHANGED frames
       ELSE /\ frames' = [frames EXCEPT ![FrameOf(c)] =
                             [s |-> AnalyzerStripped(calls[c].arg.v),
                              start |-> NoStart, depth |-> 0, i |-> 0]]
            /\ Goto(c, "scan")
    /\ UNCHANGED <<recoveryVars, numVars, pc, trainVars, laterVars>>

\* analyzer.py lines 28-41: one pass of the for loop
CleanScan(c) ==
    LET fr == frames[FrameOf(c)]
        ch == fr.s[fr.i + 1]
        loaded == json_loads(SubSeq(fr.s, fr.start + 1, fr.i + 1))
    IN  /\ calls[c].op = "clean" /\ calls[c].at = "scan"
        /\ IF fr.i >= Len(fr.s)
           THEN Goto(c, "fallback") /\ UNCHANGED frames
           ELSE IF ch = "{"
           THEN /\ frames' = [frames EXCEPT ![FrameOf(c)] =
                                 [fr EXCEPT !.start = IF @ = NoStart THEN fr.i ELSE @,
                                            !.depth = @ + 1, !.i = @ + 1]]
                /\ UNCHANGED calls
           ELSE IF ch = "}" /\ fr.depth - 1 = 0 /\ fr.start # NoStart
           THEN IF loaded.ok
                THEN /\ Finish(c, Return(loaded.val))
                     /\ frames' = [frames EXCEPT ![FrameOf(c)].depth = 0]
                ELSE /\ frames' = [frames EXCEPT ![FrameOf(c)] =
                                      [fr EXCEPT !.start = NoStart, !.depth = 0,
                                                 !.i = @ + 1]]
                     /\ UNCHANGED calls
           ELSE /\ frames' = [frames EXCEPT ![FrameOf(c)] =
                                 [fr EXCEPT !.depth = IF ch = "}" THEN @ - 1 ELSE @,
                                            !.i = @ + 1]]
                /\ UNCHANGED calls
        /\ UNCHANGED <<recoveryVars, numVars, pc, trainVars, laterVars>>

\* analyzer.py lines 42-46
CleanFallback(c) ==
    /\ calls[c].op = "clean" /\ calls[c].at = "fallback"
    /\ Finish(c, AnalyzerFallback(frames[FrameOf(c)].s))
    /\ UNCHANGED <<frames, recoveryVars, numVars, pc, trainVars, laterVars>>

\* cleaner.py lines 5-9
NumEnter(c) ==
    /\ calls[c].op = "num" /\ calls[c].at = "enter"
    /\ IF calls[c].arg = PyNone
       THEN Finish(c, Return(PyNone)) /\ UNCHANGED frames
       ELSE IF calls[c].arg.t \in {"int", "float"}
       THEN Finish(c, NumericPassthrough(calls[c].arg)) /\ UNCHANGED frames
       ELSE /\ frames' = [frames EXCEPT ![FrameOf(c)].s = NormalizeText(calls[c].arg.v)]
            /\ Goto(c, "sentinel")
    /\ UNCHANGED <<recoveryVars, numVars, pc, trainVars, laterVars>>

\* cleaner.py lines 10-11
NumSentinel(c) ==
    /\ calls[c].op = "num" /\ calls[c].at = "sentinel"
    /\ IF frames[FrameOf(c)].s \in Sentinels
       THEN Finish(c, Return(PyNone))
       ELSE Goto(c, "mill")
    /\ UNCHANGED <<frames, recoveryVars, numVars, pc, trainVars, laterVars>>

\* cleaner.py lines 12-14, 15-17 and 18-21: one re.search and its test
NumSearch(c, label, word, exp, next) ==
    LET m == SearchFrom(frames[FrameOf(c)].s, 0, word)
    IN  /\ calls[c].op = "num" /\ calls[c].at = label
        /\ IF m.ok THEN Finish(c, Return(TimesPow10(GroupFloat(m), exp)))
           ELSE IF next = "none" THEN Finish(c, Return(PyNone))
           ELSE Goto(c, next)
        /\ UNCHANGED <<frames, recoveryVars, numVars, pc, trainVars, laterVars>>

NumMill(c) == NumSearch(c, "mill", Mill, 6, "mil")

NumMil(c) == NumSearch(c, "mil", Mil, 3, "first")

NumFirst(c) == NumSearch(c, "first", <<>>, 0, "none")

NextConc ==
    \E c \in Callers :
        \/ Call(c)
        \/ CleanEnter(c)
        \/ CleanScan(c)
        \/ CleanFallback(c)
        \/ NumEnter(c)
        \/ NumSentinel(c)
        \/ NumMill(c)
        \/ NumMil(c)
        \/ NumFirst(c)

SpecConc == InitConc /\ [][NextConc]_vars

(***************************************************************************)
(* MainEntrenamientoForzado.PromptTrainer: operations                      *)
(***************************************************************************)
\* lines 164-170
validate_size(prompt) ==
    [valid |-> prompt.chars <= MAX_PROMPT_CHARS, chars |-> prompt.chars]

\* lines 172-175 returning the prompt as it is
EnsureAnchorSkipped(prompt) == prompt

\* lines 172-175: PROMPT_ANCHOR + "\n\n" + prompt when the anchor is missing
ensure_anchor(prompt) ==
    IF ~prompt.anchor
    THEN Prompt(prompt.id, AnchorLen + 2 + prompt.chars, TRUE, 1, prompt.trail)
    ELSE prompt

\* str.strip() of a prompt
StripPrompt(prompt) ==
    [prompt EXCEPT !.chars = @ - prompt.lead - prompt.trail, !.lead = 0, !.trail = 0]

\* lines 225-233: the three metrics are numbers whose sum the model keeps
\* divisible by three; anything float() rejects gives 0
calc_avg(metrics) ==
    IF metrics.kind = "numbers"
    THEN (metrics.v[1] + metrics.v[2] + metrics.v[3]) \div 3
    ELSE 0

\* lines 70-82
load_state(file) == IF file.kind = "absent" THEN DefaultState ELSE file.state

\* lines 84-86
save_state(st) == [kind |-> "state", state |-> st]

\* lines 235-248: the file holds the iteration, the score and the prompt
save_best(prompt, iteration, score) ==
    [kind |-> "best", prompt |-> prompt, iteration |-> iteration, score |-> score]

\* lines 250-276: the file written for an iteration, and whether writing it
\* raised.  parsed_ is None or the parsed response; iterating a null
\* cambios_realizados raises TypeError after the prompt was written, and so
\* does m.get on metrics that are not a mapping (AttributeError).
save_iteration(parsed_, prompt) ==
    IF parsed_ = PyNone THEN [file |-> [kind |-> "error"], raised |-> "no"]
    ELSE [file |-> [kind |-> "prompt", prompt |-> prompt],
          raised |-> IF parsed_.cambios = "null" THEN "TypeError"
                     ELSE IF parsed_.metrics.kind = "not_a_mapping"
                          THEN "AttributeError"
                          ELSE "no"]

\* lines 277-295: the prompt between "PROMPT:" and "CAMBIOS:" of the most
\* recent iteration file, stripped; None when that file has no prompt
get_latest_prompt(latest) ==
    IF latest.kind = "prompt" THEN StripPrompt(latest.prompt) ELSE NoPrompt

\* truth value of a prompt: None and "" are false
Truthy(prompt) == prompt.id # "None" /\ prompt.chars > 0

\* Responses of the generation service as improve_prompt and parse_json
\* hand them to train: no response (an exception inside improve_prompt, or
\* empty text), a KeyboardInterrupt while waiting, text that does not parse
\* (or parses to an empty value), JSON that is not a mapping, and mappings.
\* Pb is a short prompt without the anchor; Pc, without the anchor too,
\* exceeds MAX_PROMPT_CHARS once the anchor is added.
Pb == Prompt("b", 300, FALSE, 0, 1)

Pc == Prompt("c", 1700, FALSE, 0, 0)

ResponsePrompts == {Pb, Pc}

ResponseMetrics ==
    {[kind |-> "absent"], [kind |-> "not_a_mapping"],
     [kind |-> "numbers", v |-> <<0, 0, 0>>],
     [kind |-> "numbers", v |-> <<3, 6, 9>>],
     [kind |-> "numbers", v |-> <<9, 9, 9>>]}

\* a mapping: prompt_mejorado (a prompt, "absent" or "null"),
\* cambios_realizados ("list" or "null") and metricas_mejora
Mappings ==
    [t : {"mapping"},
     has_prompt : {"yes", "absent", "null"},
     prompt : ResponsePrompts,
     cambios : {"list", "null"},
     metrics : ResponseMetrics]

\* the mappings the model answers with: every prompt with and without
\* usable metrics, and one mapping for each malformed field
Responses ==
    {[t |-> "no_response"], [t |-> "interrupt"], [t |-> "unparseable"],
     [t |-> "not_a_mapping"]}
    \cup {m \in Mappings :
            /\ m.has_prompt # "yes" => m.prompt = Pb
            /\ \/ /\ m.cambios = "list"
                  /\ m.has_prompt # "null"
                  /\ m.metrics.kind \in {"absent", "numbers"}
                  /\ m.metrics.kind = "numbers" /\ m.metrics.v = <<0, 0, 0>>
                        => m.has_prompt = "absent"
               \/ /\ m.cambios = "list"
                  /\ m.has_prompt = "null"
                  /\ m.metrics.kind = "absent"
               \/ /\ m.cambios = "list"
                  /\ m.has_prompt = "yes" /\ m.prompt \in {Pb, Pc}
                  /\ m.metrics.kind = "not_a_mapping"
               \/ /\ m.cambios = "null"
                  /\ m.has_prompt = "yes" /\ m.prompt \in {Pb, Pc}
                  /\ m.metrics.kind = "numbers" /\ m.metrics.v = <<9, 9, 9>>}

(***************************************************************************)
(* Specification of the trainer: the process is started in single-run or   *)
(* in continuous mode, train() runs pass by pass against the responses of  *)
(* the generation service, ExtraerCrearDS writes the trigger file, and a   *)
(* stopped process is started again on the files it left.                  *)
(***************************************************************************)
InitTrain ==
    /\ pc = "off"
    /\ TrainerIdle
    /\ CallsIdle
    /\ BaseIdle
    /\ LaterIdle

\* trainer = PromptTrainer() loads the saved state (lines 66-68, 513)
NewTrainer(mode) ==
    [NoTrainer EXCEPT !.mode = mode, !.runs = tr.runs + 1, !.triggers = tr.triggers]

\* main(), lines 520-522: single-run mode calls train at once
StartSingle ==
    /\ pc = "off"
    /\ tr.runs < MaxRuns
    /\ state' = load_state(disk.state_file)
    /\ tr' = NewTrainer("single")
    /\ pc' = "setup"
    /\ UNCHANGED <<disk, scored, recoveryVars, numVars, callVars, laterVars>>

\* main(), lines 517-519: continuous mode waits for triggers
StartContinuous ==
    /\ pc = "off"
    /\ tr.runs < MaxRuns
    /\ state' = load_state(disk.state_file)
    /\ tr' = NewTrainer("continuous")
    /\ pc' = "waiting"
    /\ UNCHANGED <<disk, scored, recoveryVars, numVars, callVars, laterVars>>

\* ExtraerCrearDS.trigger_retraining writes the trigger file
TriggerWritten ==
    /\ tr.triggers < MaxTriggers
    /\ ~disk.trigger
    /\ disk' = [disk EXCEPT !.trigger = TRUE]
    /\ tr' = [tr EXCEPT !.triggers = @ + 1]
    /\ UNCHANGED <<state, scored, pc, recoveryVars, numVars, callVars, laterVars>>

\* continuous_mode, lines 452-477: one cycle.  A trigger is read and
\* removed and train is called; without one the cycle only sleeps.
Cycle ==
    /\ pc = "waiting"
    /\ IF disk.trigger
       THEN /\ disk' = [disk EXCEPT !.trigger = FALSE]
            /\ tr' = [tr EXCEPT !.by_trigger = TRUE, !.ret = NotCalled]
            /\ pc' = "setup"
       ELSE UNCHANGED <<disk, tr, pc>>
    /\ UNCHANGED <<state, scored, recoveryVars, numVars, callVars, laterVars>>

\* continuous_mode, lines 479-480: KeyboardInterrupt while it sleeps ends
\* the process
StopContinuous ==
    /\ pc = "waiting"
    /\ pc' = "off"
    /\ state' = DefaultState
    /\ UNCHANGED <<disk, tr, scored, recoveryVars, numVars, callVars, laterVars>>

\* train, lines 304-337.  env is what the set-up finds: the API key and the
\* dataset, or one of them missing.
TrainSetup ==
    /\ pc = "setup"
    /\ \E env \in {"ok", "no_api_key", "no_dataset"} :
          IF env # "ok"
          THEN /\ tr' = [tr EXCEPT !.ret = Return(FALSE), !.iteration = 0,
                                    !.first = 0, !.idle = 0]
               /\ pc' = "returned"
               /\ UNCHANGED disk
          ELSE LET prev_ == get_latest_prompt(disk.latest)
                   base  == ensure_anchor(InitialPrompt)
               IN  /\ pc' = "loop"
                   /\ IF Truthy(prev_)
                      THEN /\ tr' = [tr EXCEPT !.current = prev_,
                                               !.iteration = state.current_iteration + 1,
                                               !.first = state.current_iteration + 1,
                                               !.idle = 0]
                           /\ UNCHANGED disk
                      ELSE /\ tr' = [tr EXCEPT !.current = base, !.iteration = 1,
                                               !.first = 1, !.idle = 0]
                           /\ disk' = [disk EXCEPT
                                 !.latest = save_iteration(PyNone, base).file]
    /\ UNCHANGED <<state, scored, recoveryVars, numVars, callVars, laterVars>>

\* train returns False after saving the state (lines 435-438)
Interrupted ==
    /\ disk' = [disk EXCEPT !.state_file = save_state(state)]
    /\ tr' = [tr EXCEPT !.ret = Return(FALSE)]
    /\ pc' = "returned"
    /\ UNCHANGED <<state, scored>>

\* an exception other than KeyboardInterrupt leaves train
Raised(exc, st, dk, sc, cur) ==
    /\ state' = st
    /\ disk' = dk
    /\ scored' = sc
    /\ tr' = [tr EXCEPT !.ret = Raise(exc), !.current = cur]
    /\ pc' = "returned"

\* lines 410-419: the iteration is written, counted and saved
EndIteration(parsed_, cur, st, dk, sc) ==
    LET saved == save_iteration(parsed_, cur)
        dk1   == [dk EXCEPT !.latest = saved.file]
        st1   == [st EXCEPT !.current_iteration = tr.iteration]
    IN  IF saved.raised # "no"
        THEN Raised(saved.raised, st, dk1, sc, cur)
        ELSE /\ state' = st1
             /\ disk' = [dk1 EXCEPT !.state_file = save_state(st1)]
             /\ scored' = sc
             /\ tr' = [tr EXCEPT !.current = cur, !.iteration = @ + 1,
                                 !.new_prompt = NoPrompt, !.parsed = PyNone]
             /\ pc' = "loop"

\* lines 386-389: a higher average replaces the best score and the file
KeepBest(avg, st, dk, prompt, iteration) ==
    IF avg > st.best_score
    THEN [state |-> [st EXCEPT !.best_score = avg, !.best_iteration = iteration],
          disk |-> [dk EXCEPT !.best = save_best(prompt, iteration, avg)]]
    ELSE [state |-> st, disk |-> dk]

\* history: one more scored iteration, the highest average among them and
\* the prompts that got it
Scored(avg, prompt) ==
    IF scored.n = 0 \/ avg > scored.max
    THEN [n |-> 1, max |-> avg, prompts |-> {prompt.id}]
    ELSE IF avg = scored.max
    THEN [scored EXCEPT !.prompts = @ \cup {prompt.id}]
    ELSE scored

\* passes of the while loop begun in this run of train
Passes ==
    (tr.iteration - tr.first) + tr.idle + (IF pc = "condense" THEN 1 ELSE 0)

\* train, lines 344-389 and 410-419: one pass of the while loop, up to the
\* end of the iteration or to the request for a condensed prompt
LoopPass ==
    /\ pc = "loop"
    /\ tr.iteration <= MAX_ITERATIONS
    /\ \E r \in Responses :
        LET cur == ensure_anchor(tr.current)
            np  == ensure_anchor(IF r.has_prompt = "yes" THEN r.prompt ELSE cur)
            avg == calc_avg(r.metrics)
            kept == KeepBest(avg, state, disk, np, tr.iteration)
        IN  CASE r.t = "no_response" ->
                   /\ tr.idle < MaxIdle
                   /\ tr' = [tr EXCEPT !.current = cur, !.idle = @ + 1]
                   /\ UNCHANGED <<state, disk, scored, pc>>
              [] r.t = "interrupt" -> Interrupted
              [] r.t = "unparseable" ->
                   /\ disk' = [disk EXCEPT !.latest = save_iteration(PyNone, cur).file]
                   /\ tr' = [tr EXCEPT !.current = cur, !.iteration = @ + 1]
                   /\ UNCHANGED <<state, scored, pc>>
              [] r.t = "not_a_mapping" ->
                   Raised("AttributeError", state, disk, scored, cur)
              [] r.t = "mapping" /\ r.has_prompt = "null" ->
                   Raised("TypeError", state, disk, scored, cur)
              [] r.t = "mapping" /\ r.has_prompt # "null" ->
                   IF ~validate_size(np).valid
                   THEN /\ tr' = [tr EXCEPT !.current = cur, !.new_prompt = np,
                                            !.parsed = r]
                        /\ pc' = "condense"
                        /\ UNCHANGED <<state, disk, scored>>
                   ELSE IF r.metrics.kind = "absent"
                   THEN EndIteration(r, np, state, disk, scored)
                   ELSE IF r.metrics.kind = "not_a_mapping"
                   THEN Raised("AttributeError", state, disk, scored, np)
                   ELSE EndIteration(r, np, kept.state, kept.disk,
                                     Scored(avg, np))
    /\ UNCHANGED <<recoveryVars, numVars, callVars, laterVars>>

\* train, lines 390-419: the answer to the request for a condensed prompt,
\* and the end of the iteration
Condense ==
    /\ pc = "condense"
    /\ \E r \in Responses :
        LET rp == ensure_anchor(IF r.has_prompt = "yes" THEN r.prompt ELSE tr.current)
        IN  CASE r.t \in {"no_response", "unparseable"} ->
                   EndIteration(tr.parsed, tr.current, state, disk, scored)
              [] r.t = "interrupt" -> Interrupted
              [] r.t = "not_a_mapping" ->
                   Raised("AttributeError", state, disk, scored, tr.current)
              [] r.t = "mapping" /\ r.has_prompt = "null" ->
                   Raised("TypeError", state, disk, scored, tr.current)
              [] r.t = "mapping" /\ r.has_prompt # "null" ->
                   IF validate_size(rp).valid
                   THEN EndIteration(r, rp, state, disk, scored)
                   ELSE EndIteration(tr.parsed, tr.current, state, disk, scored)
    /\ UNCHANGED <<recoveryVars, numVars, callVars, laterVars>>

\* train, lines 344 and 421-433: the loop is over
TrainComplete ==
    /\ pc = "loop"
    /\ tr.iteration > MAX_ITERATIONS
    /\ state' = [state EXCEPT !.retrains_completed = @ + 1]
    /\ disk' = [disk EXCEPT !.state_file = save_state(state')]
    /\ tr' = [tr EXCEPT !.ret = Return(TRUE)]
    /\ pc' = "returned"
    /\ UNCHANGED <<scored, recoveryVars, numVars, callVars, laterVars>>

\* train has returned or raised: main() ends in single-run mode (lines
\* 520-522) and the trainer object is gone with the process;
\* continuous_mode drops the result and any exception and goes back to
\* waiting (lines 467-477)
AfterTrain ==
    /\ pc = "returned"
    /\ tr' = [NoTrainer EXCEPT !.mode = tr.mode, !.runs = tr.runs,
                               !.triggers = tr.triggers]
    /\ IF tr.mode = "continuous"
       THEN pc' = "waiting" /\ UNCHANGED state
       ELSE pc' = "off" /\ state' = DefaultState
    /\ UNCHANGED <<disk, scored, recoveryVars, numVars, callVars, laterVars>>

NextTrain ==
    \/ StartSingle
    \/ StartContinuous
    \/ TriggerWritten
    \/ Cycle
    \/ StopContinuous
    \/ TrainSetup
    \/ LoopPass
    \/ Condense
    \/ TrainComplete
    \/ AfterTrain

SpecTrain == InitTrain /\ [][NextTrain]_vars

(***************************************************************************)
(* Fence stripping on its own: line 25 of analyzer.py and lines 107-109 of *)
(* scraper_ia_pdf_a_json.py applied to one raw response                    *)
(***************************************************************************)
\* what a raw response is made of: fence markers, single backticks, blanks,
\* line ends, a letter and an object
FencePieces == {Fence, FenceJson, <<BackTick>>, <<" ">>, <<"\n">>, <<"x">>,
                ObjEmpty}

FenceTexts(n) ==
    {Flatten(ps) : ps \in UNION {[1..k -> FencePieces] : k \in 0..n}}

InitFence ==
    /\ fence_in \in FenceTexts(MaxFencePieces)
    /\ fence_out = NoStripped
    /\ pc = "raw"
    /\ BaseIdle
    /\ CallsIdle
    /\ TrainerIdle
    /\ SnowIdle
    /\ MonIdle
    /\ DsIdle
    /\ DocIdle

\* analyzer.py line 25
AnalyzerStrip ==
    /\ pc = "raw"
    /\ fence_out.analyzer = NotCalled
    /\ fence_out' = [fence_out EXCEPT !.analyzer = Return(AnalyzerStripped(fence_in))]
    /\ UNCHANGED <<fence_in, pc, recoveryVars, numVars, callVars, trainVars, snowVars, monVars, dsVars, docVars>>

\* scraper_ia_pdf_a_json.py lines 107-109
ScraperStrip ==
    /\ pc = "raw"
    /\ fence_out.scraper = NotCalled
    /\ fence_out' = [fence_out EXCEPT !.scraper = Return(ScraperStripped(fence_in))]
    /\ UNCHANGED <<fence_in, pc, recoveryVars, numVars, callVars, trainVars, snowVars, monVars, dsVars, docVars>>

NextFence == AnalyzerStrip \/ ScraperStrip

SpecFence == InitFence /\ [][NextFence]_vars

(***************************************************************************)
(* snowflake_uploader: one session, records uploaded one after another     *)
(***************************************************************************)
\* the statements of upload_record_to_snowflake in order: the three USE
\* statements (lines 99-101), the four INSERTs with SELECT MAX after the
\* first (104-170), and conn.commit() (172)
UploadSteps == <<"USE", "PROYECTOS", "SELECT MAX", "FINANZAS",
                 "IMPACTO_SOCIAL", "EVALUACIONES", "COMMIT">>

\* the tables whose INSERT ran before step k
InsertedBefore(k) ==
    {UploadSteps[j] : j \in 1..(k - 1)} \cap DOMAIN NoRows

Max(S) == CHOOSE x \in S : \A y \in S : y <= x

\* lines 91-179 for record number rec on session conn_ and committed rows
\* tables_; fail is the step that raises, 0 when none does.  With
\* autocommit on, the server commits each INSERT as it completes and
\* conn.rollback() finds nothing to undo; with autocommit off the INSERTs
\* stay in the transaction until commit or rollback.
upload_record_to_snowflake(conn_, tables_, rec, fail) ==
    LET done   == IF fail = 0 THEN DOMAIN NoRows ELSE InsertedBefore(fail)
        kept   == IF fail = 0 \/ conn_.autocommit THEN done ELSE {}
        after  == [t \in DOMAIN tables_ |->
                     IF t \in kept THEN tables_[t] \cup {rec} ELSE tables_[t]]
        id_proyecto == Max(tables_["PROYECTOS"] \cup {rec})
    IN  [tables |-> after,
         ret    |-> IF fail = 0 THEN Return(<<TRUE, id_proyecto>>)
                    ELSE Return(<<FALSE, UploadSteps[fail]>>)]

InitSnow ==
    /\ pc = "no_session"
    /\ SnowIdle
    /\ BaseIdle
    /\ CallsIdle
    /\ TrainerIdle
    /\ FenceIdle
    /\ MonIdle
    /\ DsIdle
    /\ DocIdle

\* get_snowflake_connection, lines 29-88: connect() is given account, user,
\* password and role and no autocommit argument, so the session has the
\* autocommit setting of the account or user (on unless it was changed); a
\* failure gives None and main.py uploads nothing
GetSnowflakeConnection ==
    /\ pc = "no_session"
    /\ \/ /\ \E ac \in BOOLEAN : conn' = [open |-> TRUE, autocommit |-> ac]
          /\ pc' = "session"
       \/ /\ conn' = NoConn
          /\ pc' = "no_upload"
    /\ UNCHANGED <<tables, up, recoveryVars, numVars, callVars, trainVars, fenceVars, monVars, dsVars, docVars>>

\* main.py line 205: the next record goes through upload_record_to_snowflake
UploadRecord ==
    /\ pc = "session"
    /\ up.n < MaxUploads
    /\ \E fail \in 0..Len(UploadSteps) :
          LET out == upload_record_to_snowflake(conn, tables, up.n + 1, fail)
          IN  /\ tables' = out.tables
              /\ up' = [n |-> up.n + 1, ret |-> out.ret]
    /\ UNCHANGED <<conn, pc, recoveryVars, numVars, callVars, trainVars, fenceVars, monVars, dsVars, docVars>>

\* main.py lines 340-341
CloseConnection ==
    /\ pc = "session"
    /\ conn' = [conn EXCEPT !.open = FALSE]
    /\ pc' = "closed"
    /\ UNCHANGED <<tables, up, recoveryVars, numVars, callVars, trainVars, fenceVars, monVars, dsVars, docVars>>

NextSnow == GetSnowflakeConnection \/ UploadRecord \/ CloseConnection

SpecSnow == InitSnow /\ [][NextSnow]_vars

(***************************************************************************)
(* main.py: the start-up batch over the manifest and the monitoring loop   *)
(***************************************************************************)
restVars == <<recoveryVars, numVars, callVars, trainVars, fenceVars, snowVars, dsVars, docVars>>

\* process_single_document (lines 152-222) on file f with the dict dict_:
\* the dict afterwards, whether a record was returned, whether it raised.
\* The entry of a processed file is set at step 7 (line 208), after every
\* call that can raise.
process_single_document(f, dict_) ==
    IF f \in dict_
    THEN [dict |-> dict_, record |-> FALSE, raised |-> FALSE]
    ELSE IF pdf[f] = "short"
    THEN [dict |-> dict_ \cup {f}, record |-> FALSE, raised |-> FALSE]
    ELSE IF pdf[f] = "raises"
    THEN [dict |-> dict_, record |-> FALSE, raised |-> TRUE]
    ELSE [dict |-> dict_ \cup {f}, record |-> TRUE, raised |-> FALSE]

\* the for loop of main(), lines 322-330, over the files in order: a record
\* is appended and the dict saved; an exception is printed and nothing else
RECURSIVE StartupBatch(_, _)
StartupBatch(order, st) ==
    IF order = <<>> THEN st
    ELSE LET r == process_single_document(Head(order), st.dict)
         IN  StartupBatch(Tail(order),
                 IF r.record
                 THEN [dict |-> r.dict, file |-> r.dict,
                       outputs |-> st.outputs \cup {Head(order)},
                       yielded |-> st.yielded \cup {Head(order)}]
                 ELSE [st EXCEPT !.dict = r.dict])

\* the for loop of continuous_monitoring_loop, lines 252-268: a record is
\* appended and the dict saved; an exception puts an error entry
RECURSIVE MonitoringBatch(_, _)
MonitoringBatch(order, st) ==
    IF order = <<>> THEN st
    ELSE LET r == process_single_document(Head(order), st.dict)
         IN  MonitoringBatch(Tail(order),
                 IF r.record
                 THEN [dict |-> r.dict, file |-> r.dict,
                       outputs |-> st.outputs \cup {Head(order)},
                       yielded |-> st.yielded \cup {Head(order)}]
                 ELSE IF r.raised
                 THEN [st EXCEPT !.dict = r.dict \cup {Head(order)}]
                 ELSE [st EXCEPT !.dict = r.dict])

\* the orders in which a set of files can be listed
Orders(S) ==
    {o \in [1..Cardinality(S) -> S] : \A i, j \in DOMAIN o : i # j => o[i] # o[j]}

\* discover_new_files_in_sample, downloader.py lines 45-61
discover_new_files_in_sample == sample \ manifest

InitMon ==
    /\ pc = "stopped"
    /\ pdf \in [Files -> Kinds]
    /\ sample = {}
    /\ manifest = {}
    /\ docs = {}
    /\ procesados = {}
    /\ mem = {}
    /\ outputs = {}
    /\ yielded = {}
    /\ stops = 0
    /\ BaseIdle
    /\ CallsIdle
    /\ TrainerIdle
    /\ FenceIdle
    /\ SnowIdle
    /\ DsIdle
    /\ DocIdle

\* someone puts a PDF in sample_sources/
PlaceFile ==
    /\ \E f \in Files \ sample : sample' = sample \cup {f}
    /\ UNCHANGED <<pdf, manifest, docs, procesados, mem, outputs, yielded, stops, pc, restVars>>

\* main(), lines 314-334: download_batch_simulated (downloader.py 125-161)
\* gives the manifest's files found in docs/ or sample_sources/, the batch
\* processes them with the dict loaded from the procesados file, and the
\* monitoring loop starts with the dict it loads itself (line 237)
Main ==
    /\ pc = "stopped"
    /\ LET downloaded == {f \in manifest : f \in docs \/ f \in sample}
       IN  /\ docs' = docs \cup downloaded
           /\ \E order \in Orders(downloaded) :
                 LET st == StartupBatch(order,
                               [dict |-> procesados, file |-> procesados,
                                outputs |-> outputs, yielded |-> yielded])
                 IN  /\ procesados' = st.file
                     /\ outputs' = st.outputs
                     /\ yielded' = st.yielded
                     /\ mem' = st.file
    /\ pc' = "monitoring"
    /\ UNCHANGED <<pdf, sample, manifest, stops, restVars>>

\* one pass of the while loop, lines 241-277: check_and_download_new_files
\* (downloader.py 101-122) copies the new files to docs/ and adds them to
\* the manifest, the batch processes them, and the dict is saved
MonitoringCycle ==
    /\ pc = "monitoring"
    /\ LET new_files == discover_new_files_in_sample
       IN  /\ manifest' = manifest \cup new_files
           /\ docs' = docs \cup new_files
           /\ \E order \in Orders(new_files) :
                 LET st == MonitoringBatch(order,
                               [dict |-> mem, file |-> procesados,
                                outputs |-> outputs, yielded |-> yielded])
                 IN  /\ mem' = st.dict
                     /\ procesados' = IF new_files = {} THEN procesados ELSE st.dict
                     /\ outputs' = st.outputs
                     /\ yielded' = st.yielded
    /\ UNCHANGED <<pdf, sample, stops, pc, restVars>>

\* Ctrl+C while the loop sleeps (lines 277-280): the program ends
Stopped ==
    /\ pc = "monitoring"
    /\ stops < MaxStops
    /\ stops' = stops + 1
    /\ mem' = {}
    /\ pc' = "stopped"
    /\ UNCHANGED <<pdf, sample, manifest, docs, procesados, outputs, yielded, restVars>>

\* Ctrl+C in a pass after check_and_download_new_files has returned (line
\* 247) and before the first file is processed: the new files are in docs/
\* and in the manifest, and the program ends
StoppedAfterDownload ==
    /\ pc = "monitoring"
    /\ stops < MaxStops
    /\ discover_new_files_in_sample # {}
    /\ manifest' = manifest \cup discover_new_files_in_sample
    /\ docs' = docs \cup discover_new_files_in_sample
    /\ stops' = stops + 1
    /\ mem' = {}
    /\ pc' = "stopped"
    /\ UNCHANGED <<pdf, sample, procesados, outputs, yielded, restVars>>

NextMon ==
    \/ PlaceFile
    \/ Main
    \/ MonitoringCycle
    \/ Stopped
    \/ StoppedAfterDownload

SpecMon == InitMon /\ [][NextMon]_vars

\* a stopped program is started again, and the loop wakes up every
\* MONITORING_INTERVAL seconds
SpecMonFair == SpecMon /\ WF_vars(Main) /\ WF_vars(MonitoringCycle)

(***************************************************************************)
(* ExtraerCrearDS.SnowflakeMonitor: new rows of PROYECTOS                  *)
(***************************************************************************)
MIN_RETRAIN_RECORDS == 1

\* SELECT MAX(id_proyecto) FROM PROYECTOS as lines 98-100 read it: 0 for
\* an empty table
MaxIdOrZero(rows) == IF rows = {} THEN 0 ELSE Max(rows)

\* lines 91-123 on the rows of PROYECTOS: (hay_nuevos, count_nuevos,
\* nuevos_registros); failed says a query raised
check_new_records(rows, last_id, failed) ==
    LET max_id == MaxIdOrZero(rows)
    IN  IF failed THEN <<FALSE, 0, {}>>
        ELSE IF max_id > last_id
        THEN <<TRUE, max_id - last_id, {i \in rows : i > last_id}>>
        ELSE <<FALSE, 0, {}>>

InitDs ==
    /\ pc = "monitor"
    /\ DsIdle
    /\ BaseIdle
    /\ CallsIdle
    /\ TrainerIdle
    /\ FenceIdle
    /\ SnowIdle
    /\ MonIdle
    /\ DocIdle

\* an upload adds a row to PROYECTOS; the table gives it an id above the
\* ones it has, not always the next one
RowInserted ==
    /\ \E i \in (MaxIdOrZero(ids) + 1)..MaxId : ids' = ids \cup {i}
    /\ UNCHANGED <<monitor, checked, pc, recoveryVars, numVars, callVars, trainVars, fenceVars, snowVars, monVars, docVars>>

\* a row of PROYECTOS is deleted
RowDeleted ==
    /\ \E i \in ids : ids' = ids \ {i}
    /\ UNCHANGED <<monitor, checked, pc, recoveryVars, numVars, callVars, trainVars, fenceVars, snowVars, monVars, docVars>>

\* one pass of monitor_loop, lines 232-289: check_new_records, and when it
\* reports new rows and the dataset was written (updated), the state takes
\* the largest id (245-249) and a re-training is triggered (252-253)
MonitorPass ==
    /\ pc = "monitor"
    /\ \E failed, updated \in BOOLEAN :
          LET out == check_new_records(ids, monitor.last_id_proyecto, failed)
          IN  /\ checked' = Return(out)
              /\ monitor' =
                    IF out[1] /\ updated
                    THEN [last_id_proyecto |-> MaxIdOrZero(ids),
                          retrains_triggered |->
                              IF out[2] >= MIN_RETRAIN_RECORDS
                              THEN monitor.retrains_triggered + 1
                              ELSE monitor.retrains_triggered]
                    ELSE monitor
    /\ UNCHANGED <<ids, pc, recoveryVars, numVars, callVars, trainVars, fenceVars, snowVars, monVars, docVars>>

NextDs == RowInserted \/ RowDeleted \/ MonitorPass

SpecDs == InitDs /\ [][NextDs]_vars

(***************************************************************************)
(* main.py statement by statement: the start-up batch and the monitoring   *)
(* loop with a stop of the process possible between any two statements     *)
(***************************************************************************)
docRest ==
    <<recoveryVars, numVars, callVars, trainVars, fenceVars, snowVars, dsVars,
      mem, procesados, outputs, yielded>>

\* the dict with the entry of f set to status
WithEntry(dict_, f, status) ==
    [g \in DOMAIN dict_ \cup {f} |-> IF g = f THEN status ELSE dict_[g]]

\* line 157 asking for an entry of status success
AlreadyProcessedSuccess(f, dict_) == f \in DOMAIN dict_ /\ dict_[f] = "success"

\* line 157: file_key in procesados
AlreadyProcessed(f, dict_) == f \in DOMAIN dict_

\* the file being processed
Current == Head(run.queue)

\* the for loop moves on to its next file, or the batch is over
Advance(r, skipped) ==
    [r EXCEPT !.queue = Tail(@),
              !.at = IF Tail(r.queue) = <<>> THEN "end" ELSE "check",
              !.skipped = skipped]

InitDoc ==
    /\ pc = "stopped"
    /\ pdf \in [Files -> Kinds]
    /\ sample = {}
    /\ manifest = {}
    /\ docs = {}
    /\ stops = 0
    /\ mem = {}
    /\ procesados = {}
    /\ outputs = {}
    /\ yielded = {}
    /\ DocIdle
    /\ BaseIdle
    /\ CallsIdle
    /\ TrainerIdle
    /\ FenceIdle
    /\ SnowIdle
    /\ DsIdle

\* someone puts a PDF in sample_sources/
DocPlaceFile ==
    /\ \E f \in Files \ sample : sample' = sample \cup {f}
    /\ UNCHANGED <<pdf, manifest, docs, stops, pc, docVars, docRest>>

\* main(), lines 314-320: download_batch_simulated lists the manifest's
\* files found in docs/ or sample_sources/ and the dict is loaded
DocMain ==
    /\ pc = "stopped"
    /\ LET downloaded == {f \in manifest : f \in docs \/ f \in sample}
       IN  /\ docs' = docs \cup downloaded
           /\ \E order \in Orders(downloaded) :
                 run' = [loop |-> "startup", queue |-> order,
                         at |-> IF order = <<>> THEN "end" ELSE "check",
                         skipped |-> 0]
    /\ entries' = entries_file
    /\ pc' = "running"
    /\ UNCHANGED <<pdf, sample, manifest, stops, entries_file, json_rows, csv_rows, effects, docRest>>

\* process_single_document, lines 152-159: a name with an entry returns
\* None, and the loop (322-328, 252-260) goes to its next file
DocCheck ==
    /\ run.at = "check"
    /\ run' = IF AlreadyProcessed(Current, entries)
              THEN Advance(run, Current)
              ELSE [run EXCEPT !.at = "extract", !.skipped = 0]
    /\ UNCHANGED <<pdf, sample, manifest, docs, stops, pc, entries, entries_file, json_rows, csv_rows, effects, docRest>>

\* lines 162-171: too little text is recorded as failed and None returned
DocExtract ==
    /\ run.at = "extract"
    /\ IF pdf[Current] = "short"
       THEN /\ entries' = WithEntry(entries, Current, "failed")
            /\ run' = Advance(run, 0)
       ELSE /\ run' = [run EXCEPT !.at = "analyze"]
            /\ UNCHANGED entries
    /\ UNCHANGED <<pdf, sample, manifest, docs, stops, pc, entries_file, json_rows, csv_rows, effects, docRest>>

\* lines 174-201: the model is called and its answer normalized; an
\* exception leaves process_single_document, and the start-up batch prints
\* it (329-330) while the monitoring loop records an error entry (262-266)
DocAnalyze ==
    /\ run.at = "analyze"
    /\ effects' = [effects EXCEPT !.model_calls = @ + 1]
    /\ IF pdf[Current] = "raises"
       THEN /\ run' = Advance(run, 0)
            /\ entries' = IF run.loop = "monitor"
                          THEN WithEntry(entries, Current, "error")
                          ELSE entries
       ELSE /\ run' = [run EXCEPT !.at = "upload"]
            /\ UNCHANGED entries
    /\ UNCHANGED <<pdf, sample, manifest, docs, stops, pc, entries_file, json_rows, csv_rows, docRest>>

\* lines 204-222: the record is uploaded, the entry set to success and the
\* record returned
DocUpload ==
    /\ run.at = "upload"
    /\ effects' = [effects EXCEPT !.uploads = @ + 1]
    /\ entries' = WithEntry(entries, Current, "success")
    /\ run' = [run EXCEPT !.at = "append_json"]
    /\ UNCHANGED <<pdf, sample, manifest, docs, stops, pc, entries_file, json_rows, csv_rows, docRest>>

\* append_record_json, storage.py lines 18-28
DocAppendJson ==
    /\ run.at = "append_json"
    /\ json_rows' = [json_rows EXCEPT ![Current] = @ + 1]
    /\ run' = [run EXCEPT !.at = "append_csv"]
    /\ UNCHANGED <<pdf, sample, manifest, docs, stops, pc, entries, entries_file, csv_rows, effects, docRest>>

\* append_record_csv, main.py lines 258, 327
DocAppendCsv ==
    /\ run.at = "append_csv"
    /\ csv_rows' = [csv_rows EXCEPT ![Current] = @ + 1]
    /\ run' = [run EXCEPT !.at = "save"]
    /\ UNCHANGED <<pdf, sample, manifest, docs, stops, pc, entries, entries_file, json_rows, effects, docRest>>

\* save_procesados, main.py lines 259, 328
DocSave ==
    /\ run.at = "save"
    /\ entries_file' = entries
    /\ run' = Advance(run, 0)
    /\ UNCHANGED <<pdf, sample, manifest, docs, stops, pc, entries, json_rows, csv_rows, effects, docRest>>

\* the batch is over: after the start-up batch the monitoring loop begins
\* with the dict it loads from the file (lines 333-334, 237); after a
\* monitoring batch the dict is saved (268) and the loop sleeps
DocBatchEnd ==
    /\ run.at = "end"
    /\ IF run.loop = "startup"
       THEN /\ entries' = entries_file
            /\ UNCHANGED entries_file
       ELSE /\ entries_file' = entries
            /\ UNCHANGED entries
    /\ run' = [loop |-> "monitor", queue |-> <<>>, at |-> "sleep", skipped |-> 0]
    /\ UNCHANGED <<pdf, sample, manifest, docs, stops, pc, json_rows, csv_rows, effects, docRest>>

\* a pass of the monitoring loop that finds new files, lines 241-250:
\* check_and_download_new_files copies them to docs/ and adds them to the
\* manifest
DocCycle ==
    /\ run.at = "sleep"
    /\ discover_new_files_in_sample # {}
    /\ manifest' = manifest \cup discover_new_files_in_sample
    /\ docs' = docs \cup discover_new_files_in_sample
    /\ \E order \in Orders(discover_new_files_in_sample) :
          run' = [loop |-> "monitor", queue |-> order, at |-> "check", skipped |-> 0]
    /\ UNCHANGED <<pdf, sample, stops, pc, entries, entries_file, json_rows, csv_rows, effects, docRest>>

\* the process is stopped (Ctrl+C, lines 279-280, or killed) wherever it is;
\* its dict is gone, the files stay
DocStop ==
    /\ pc = "running"
    /\ stops < MaxStops
    /\ stops' = stops + 1
    /\ entries' = NoEntries
    /\ run' = NotRunning
    /\ pc' = "stopped"
    /\ UNCHANGED <<pdf, sample, manifest, docs, entries_file, json_rows, csv_rows, effects, docRest>>

NextDoc ==
    \/ DocPlaceFile
    \/ DocMain
    \/ DocCheck
    \/ DocExtract
    \/ DocAnalyze
    \/ DocUpload
    \/ DocAppendJson
    \/ DocAppendCsv
    \/ DocSave
    \/ DocBatchEnd
    \/ DocCycle
    \/ DocStop

SpecDoc == InitDoc /\ [][NextDoc]_vars

(***************************************************************************)
(* Properties of the recovery                                              *)
(***************************************************************************)
Stripped == AnalyzerStripped(json_str)

Recovered == pc = "done" /\ resp_kind = "text"

\* C1: a text that is a valid JSON object is recovered, by both
\* implementations, to exactly the value of its strict parse.
C1_IdentityOnCleanInput ==
    Recovered /\ json_loads(json_str).ok /\ json_loads(json_str).val.t = "obj"
        => /\ parsed = Return(json_loads(json_str).val)
           /\ scraped = Return(json_loads(json_str).val)

\* prose around a fenced object: no fence character, and braces only stray
\* (no opening brace with a closing brace after it)
Prose(p) ==
    /\ \A k \in 1..Len(p) : p[k] # BackTick
    /\ \A i \in 1..Len(p) : \A j \in 1..Len(p) :
          ~(i < j /\ p[i] = "{" /\ p[j] = "}")

\* the ways to read the text as prose, FenceJson, object, Fence, prose
FencedObjects(text) ==
    {ab \in (0..Len(text)) \X (0..Len(text)) :
        /\ ab[1] + 7 <= ab[2]
        /\ StartsWithAt(text, ab[1], FenceJson)
        /\ StartsWithAt(text, ab[2], Fence)
        /\ Prose(Take(text, ab[1]))
        /\ Prose(Drop(text, ab[2] + 3))
        /\ json_loads(SubSeq(text, ab[1] + 8, ab[2])).ok
        /\ json_loads(SubSeq(text, ab[1] + 8, ab[2])).val.t = "obj"}

\* C2: a JSON object wrapped in a json code fence and surrounded by prose,
\* stray braces in the prose included, is recovered to exactly that object.
C2_FenceNoiseTolerance ==
    Recovered =>
        \A ab \in FencedObjects(json_str) :
            /\ parsed = Return(json_loads(SubSeq(json_str, ab[1] + 8, ab[2])).val)
            /\ scraped = Return(json_loads(SubSeq(json_str, ab[1] + 8, ab[2])).val)

\* C3: in a text with several top-level balanced brace spans the recovery
\* returns the leftmost span that parses as strict JSON, never a later one.
C3_FirstValidWins ==
    Recovered /\ Cardinality(GlossarySpans(Stripped)) >= 2
              /\ ParsingSpans(Stripped) # {}
        => parsed = Return(json_loads(SpanText(Stripped,
                                Leftmost(ParsingSpans(Stripped)))).val)

\* C4: when the first balanced span is not valid JSON and a later balanced
\* span is, the recovery returns the valid span instead of failing.
C4_SkipAndContinue ==
    Recovered /\ ParsingSpans(Stripped) # {}
              /\ Leftmost(GlossarySpans(Stripped)) \notin ParsingSpans(Stripped)
        => /\ ~Failed(parsed)
           /\ parsed = Return(json_loads(SpanText(Stripped,
                                Leftmost(ParsingSpans(Stripped)))).val)

FirstOpen(s) == CHOOSE k \in 1..Len(s) : s[k] = "{" /\ \A j \in 1..(k - 1) : s[j] # "{"

\* truncated output: an opening brace that is never matched, in a text that
\* is not itself valid JSON
Truncated(s) ==
    /\ HasOpenBrace(s)
    /\ \A j \in FirstOpen(s)..Len(s) :
          BraceCount(s, j) - BraceCount(s, FirstOpen(s) - 1) > 0
    /\ ~json_loads(s).ok

\* C6: for truncated output, with or without a complete nested object, the
\* outcome is the failure and never an object.
C6_TruncatedFails ==
    Recovered /\ Truncated(Stripped)
        => Failed(parsed) /\ scraped.kind = "raise"

\* C8: a successful recovery yields a mapping, never an array, number,
\* string, boolean or null.
C8_RecoveredIsMapping ==
    Recovered =>
        /\ ~Failed(parsed) => parsed.val.t = "obj"
        /\ scraped.kind = "return" => scraped.val.t = "obj"

IsNumber(tok) ==
    /\ tok # <<>>
    /\ \/ \A k \in 1..Len(tok) : tok[k] \in Digits
       \/ \E p \in 2..(Len(tok) - 1) :
             /\ tok[p] = "."
             /\ \A k \in (1..Len(tok)) \ {p} : tok[k] \in Digits

\* the places <<a, b>> where s[a:b] is a number followed, after optional
\* whitespace, by word
NumberFollowedBy(s, word) ==
    {ab \in (0..Len(s)) \X (0..Len(s)) :
        /\ ab[1] < ab[2]
        /\ IsNumber(SubSeq(s, ab[1] + 1, ab[2]))
        /\ \E k \in ab[2]..Len(s) :
              /\ \A j \in (ab[2] + 1)..k : s[j] \in PyWs
              /\ StartsWithAt(s, k, word)}

\* the value of a number token
TokenValue(tok) ==
    LET digits == SelectSeq(tok, LAMBDA c : c \in Digits)
        point  == {p \in 1..Len(tok) : tok[p] = "."}
    IN  Float(DigitsToInt(digits),
              IF point = {} THEN 0 ELSE Len(tok) - (CHOOSE p \in point : TRUE))

FirstNumberBefore(s, word) ==
    TokenValue(SubSeq(s, Leftmost(NumberFollowedBy(s, word))[1] + 1,
                      Leftmost(NumberFollowedBy(s, word))[2]))

\* C9: a text in which a number n is followed by "mill" gives n x 1,000,000;
\* a text with no such match in which n is followed by "mil" gives
\* n x 1,000.  The text is read as the normalizer reads it: lower-cased,
\* commas removed, trimmed; n is the leftmost such number.
C9_MagnitudePhrases ==
    pc = "num_done" /\ num_in.t = "str" =>
        LET s == NormalizeText(num_in.v)
        IN  /\ NumberFollowedBy(s, Mill) # {} =>
                  num_out = Return(TimesPow10(FirstNumberBefore(s, Mill), 6))
            /\ NumberFollowedBy(s, Mill) = {} /\ NumberFollowedBy(s, Mil) # {} =>
                  num_out = Return(TimesPow10(FirstNumberBefore(s, Mil), 3))

C9_Witness ==
    /\ pc = "num_done"
    /\ num_in = [t |-> "str", v |-> <<"1", "5", " ">> \o Mill]
    /\ num_out = Return(Float(15000000, 0))

\* C10: None, the empty string and the sentinels "null", "none", "-" in any
\* case and with surrounding whitespace give None; an int or a float gives
\* the same value as a float.
C10_SentinelsAndNumbers ==
    pc = "num_done" =>
        /\ num_in = PyNone => num_out = Return(PyNone)
        /\ num_in.t = "str" /\ Strip(Lower(num_in.v)) \in Sentinels =>
              num_out = Return(PyNone)
        /\ num_in.t \in {"int", "float"} =>
              num_out = Return([t |-> "float", n |-> num_in.n, d |-> num_in.d])

\* the places <<a, b>> where s[a:b] is a decimal or integer number
NumberSpans(s) ==
    {ab \in (0..Len(s)) \X (0..Len(s)) :
        ab[1] < ab[2] /\ IsNumber(SubSeq(s, ab[1] + 1, ab[2]))}

\* the first number of s: the longest one at the least start
FirstNumber(s) ==
    LET ab == CHOOSE ab \in NumberSpans(s) :
                  \A o \in NumberSpans(s) :
                      ab[1] < o[1] \/ (ab[1] = o[1] /\ ab[2] >= o[2])
    IN  TokenValue(SubSeq(s, ab[1] + 1, ab[2]))

\* C11: to_number_simple returns normally for every input; for a text in
\* which no number is followed by "mil" or "mill" the result is the first
\* decimal or integer number of the text as a float, and None when the text
\* holds no number.  The text is read lower-cased, commas removed, trimmed.
C11_TotalFirstNumber ==
    pc = "num_done" =>
        /\ num_out.kind = "return"
        /\ num_in.t = "str" /\ NumberFollowedBy(NormalizeText(num_in.v), Mil) = {} =>
              num_out = Return(IF NumberSpans(NormalizeText(num_in.v)) = {}
                               THEN PyNone
                               ELSE FirstNumber(NormalizeText(num_in.v)))

(***************************************************************************)
(* Properties of concurrent callers                                        *)
(***************************************************************************)
\* what a finished call returned is what the routine gives for its argument
ResultOfArgument ==
    \A c \in Callers :
        calls[c].at = "done" =>
            calls[c].ret = IF calls[c].op = "clean"
                           THEN clean_json_string(calls[c].arg.v)
                           ELSE to_number_simple(calls[c].arg)

\* a step touches the call and the frame of one caller only
OneCallerSteps ==
    \A c \in Callers : \A d \in Callers \ {c} :
        \/ calls'[c] = calls[c] /\ frames'[c] = frames[c]
        \/ calls'[d] = calls[d] /\ frames'[d] = frames[d]

\* C12: the recovery and the normalizer are stateless: the result of a call
\* is the function of its argument alone, whatever calls came before it and
\* whatever calls of other callers are interleaved with it, and a step of
\* one call changes nothing another call sees.
C12_Stateless == []ResultOfArgument /\ [][OneCallerSteps]_vars

\* a caller has finished its second call while another caller, which entered
\* the scanner with a different argument, is part-way through its scan
C12_Witness ==
    /\ calls[1].at = "done" /\ calls[1].n = 2 /\ calls[1].op = "clean"
    /\ calls[1].ret = Return([t |-> "obj", v |-> EmptyDict])
    /\ calls[2].at = "scan" /\ calls[2].arg # calls[1].arg
    /\ frames[2].i > 0 /\ frames[2].depth > 0

(***************************************************************************)
(* Properties of the trainer                                               *)
(***************************************************************************)
\* C13: in continuous mode a consumed trigger is followed by a training run
\* that makes at least one pass of the improvement loop (one call of the
\* generation service) before the trainer waits again.  Stated for the runs
\* that get through their set-up and complete.
C13_TriggerRetrains ==
    pc = "returned" /\ tr.mode = "continuous" /\ tr.by_trigger
                    /\ tr.ret = Return(TRUE)
        => Passes >= 1

\* C15: between iterations, once an iteration has been scored, best_score
\* is the highest average of all scored iterations so far, also after the
\* process was started again on its saved state, and the best-prompt file
\* holds a prompt that got that average (an average of 0 never beats the
\* initial best score, so no file is asked for it).
C15_KeepsHighest ==
    pc \in {"loop", "returned"} /\ scored.n > 0 =>
        /\ state.best_score = scored.max
        /\ scored.max > 0 =>
              /\ disk.best.kind = "best"
              /\ disk.best.score = scored.max
              /\ disk.best.prompt.id \in scored.prompts

\* C18: a run of train makes at most max_iter passes of its loop, whatever
\* the generation service answers.
C18_TrainTerminates ==
    pc \in {"loop", "condense", "returned"} => Passes <= MAX_ITERATIONS

\* C19: the prompt in best_analysis_prompt.txt has at most MAX_PROMPT_CHARS
\* characters and contains the anchor "REGLAS FUNDAMENTALES".
C19_BestPromptBounded ==
    disk.best.kind = "best" =>
        /\ disk.best.prompt.chars <= MAX_PROMPT_CHARS
        /\ disk.best.prompt.anchor

\* a response whose prompt lacked the anchor was scored and became the best
\* prompt, with the anchor put in front of it
C19_Witness ==
    /\ disk.best.kind = "best"
    /\ disk.best.prompt = Prompt("b", AnchorLen + 2 + 300, TRUE, 1, 1)
    /\ disk.best.score = 9

(***************************************************************************)
(* The spans the brace scanners hand to json.loads                         *)
(***************************************************************************)
\* <<a, b>> (0-based, inclusive) opens at a brace read with no brace open
\* and closes at the first brace that leaves none open: counted from a on,
\* the net number of open braces is positive up to b and zero after b
OpensAndClosesAtZero(s, sp) ==
    /\ s[sp[1] + 1] = "{"
    /\ s[sp[2] + 1] = "}"
    /\ \A j \in (sp[1] + 1)..sp[2] : BraceCount(s, j) > BraceCount(s, sp[1])
    /\ BraceCount(s, sp[2] + 1) = BraceCount(s, sp[1])

\* the spans analyzer.clean_json_string tries on a response
AnalyzerTried(json_str_) ==
    IF json_str_ = <<>> THEN <<>>
    ELSE AnalyzerScan(AnalyzerStripped(json_str_), 0, NoStart, 0, <<>>).tried

\* the spans scraper_ia_pdf_a_json.clean_json_string tries on a response
ScraperTried(json_str_) ==
    IF json_loads(ScraperStripped(json_str_)).ok THEN <<>>
    ELSE ScraperScan(ScraperStripped(json_str_), 0, -1, 0, <<>>).tried

\* C16: every span either brace scanner hands to json.loads starts at a
\* "{" read at nesting depth zero and ends at the "}" where the depth is
\* zero again, whatever the text, a "}" before any "{" included.
C16_CandidateSpans ==
    /\ pc # "ready" =>
          \A k \in 1..Len(AnalyzerTried(json_str)) :
              OpensAndClosesAtZero(AnalyzerStripped(json_str),
                                   AnalyzerTried(json_str)[k])
    /\ pc \in {"scraped", "done"} =>
          \A k \in 1..Len(ScraperTried(json_str)) :
              OpensAndClosesAtZero(ScraperStripped(json_str),
                                   ScraperTried(json_str)[k])

\* the scraper's half of C16 on its own
ScraperSpansAtZero ==
    pc \in {"scraped", "done"} =>
        \A k \in 1..Len(ScraperTried(json_str)) :
            OpensAndClosesAtZero(ScraperStripped(json_str),
                                 ScraperTried(json_str)[k])

(***************************************************************************)
(* Fence stripping as a frame condition                                    *)
(***************************************************************************)
\* t (from index j on) is what is left of s (from index i on) after taking
\* out fence markers and white space at the two ends of the text, every
\* other character kept in its place
RECURSIVE OnlyFencesRemoved(_, _, _, _)
OnlyFencesRemoved(s, i, t, j) ==
    IF i >= Len(s) THEN j >= Len(t)
    ELSE \/ /\ j < Len(t)
            /\ s[i + 1] = t[j + 1]
            /\ OnlyFencesRemoved(s, i + 1, t, j + 1)
         \/ /\ StartsWithAt(s, i, FenceJson)
            /\ OnlyFencesRemoved(s, i + 7, t, j)
         \/ /\ StartsWithAt(s, i, Fence)
            /\ OnlyFencesRemoved(s, i + 3, t, j)
         \/ /\ s[i + 1] \in PyWs
            /\ j = 0 \/ j >= Len(t)
            /\ OnlyFencesRemoved(s, i + 1, t, j)

\* C17: what either routine keeps of a response after fence stripping is
\* the response without fence markers (the three backticks, with or without
\* json) and without white space around it; every other character is kept,
\* in order.
C17_OnlyFencesRemoved ==
    /\ fence_out.analyzer # NotCalled =>
          OnlyFencesRemoved(fence_in, 0, fence_out.analyzer.val, 0)
    /\ fence_out.scraper # NotCalled =>
          OnlyFencesRemoved(fence_in, 0, fence_out.scraper.val, 0)

\* the analyzer's half of C17 on its own
AnalyzerOnlyFencesRemoved ==
    fence_out.analyzer # NotCalled =>
        OnlyFencesRemoved(fence_in, 0, fence_out.analyzer.val, 0)

(***************************************************************************)
(* The upload as a unit                                                    *)
(***************************************************************************)
\* C20: an upload that returned (True, id) left the record's row in each of
\* the four tables, committed; one that returned (False, message) left no
\* row of the record in any of them.
C20_AllOrNothing ==
    up.ret # NotCalled =>
        IF up.ret.val[1]
        THEN \A t \in DOMAIN tables : up.n \in tables[t]
        ELSE \A t \in DOMAIN tables : up.n \notin tables[t]

\* C20 for sessions whose autocommit is off
AllOrNothingInTransaction ==
    up.ret # NotCalled /\ ~conn.autocommit =>
        IF up.ret.val[1]
        THEN \A t \in DOMAIN tables : up.n \in tables[t]
        ELSE \A t \in DOMAIN tables : up.n \notin tables[t]

(***************************************************************************)
(* Every PDF in sample_sources/ is processed                               *)
(***************************************************************************)
\* f has an entry in procesados: in the file, or in the dict the running
\* monitoring loop keeps
HasEntry(f) == f \in procesados \cup mem

\* C14: every PDF placed in sample_sources/ gets an entry in procesados
\* after finitely many monitoring cycles (the start-up batch over the
\* manifest included), and a record that processing yields is in the JSON
\* and CSV outputs.
C14_EveryPdfProcessed ==
    /\ \A f \in Files : (f \in sample) ~> HasEntry(f)
    /\ [](yielded \subseteq outputs)

\* C14 for the PDFs that never go through the start-up batch
ProcessedUnlessStoppedMidway ==
    /\ \A f \in Files : (f \in sample) ~> (HasEntry(f) \/ stops > 0)
    /\ [](yielded \subseteq outputs)

(***************************************************************************)
(* The monitor's count of new rows                                         *)
(***************************************************************************)
\* C21: when check_new_records reports new data, the count it returns is
\* the number of new records it returns, whatever ids the table holds.
C21_CountMatchesRecords ==
    checked # NotCalled /\ checked.val[1] =>
        checked.val[2] = Cardinality(checked.val[3])

(***************************************************************************)
(* Documents that already have an entry                                    *)
(***************************************************************************)
\* process_single_document is at its first statement with a file that has
\* an entry, and the step is the process's own (the process moves and is
\* not being stopped)
SkipStep ==
    /\ run.at = "check"
    /\ Current \in DOMAIN entries
    /\ run' # run
    /\ run'.at # "off"

\* C22: processing a document whose name has an entry in procesados, of
\* whatever status, returns None at once: no model call, no upload, and
\* procesados and the output files are as they were.
C22_ProcessedIsSkipped ==
    [][SkipStep =>
         /\ run'.skipped = Current
         /\ run'.at \in {"check", "end"}
         /\ UNCHANGED <<entries, entries_file, json_rows, csv_rows, effects>>]_vars

\* a file recorded as failed or as error has been skipped
C22_Witness ==
    /\ run.skipped \in Files
    /\ entries[run.skipped] \in {"failed", "error"}
    /\ effects.model_calls > 0

(***************************************************************************)
(* One record per document in salida_limpia.json                           *)
(***************************************************************************)
\* C24: whatever the start-up batches, monitoring passes, stops and
\* restarts, salida_limpia.json holds at most one record per file name.
C24_AtMostOnce == \A f \in Files : json_rows[f] <= 1

\* C24 for a process that is never stopped
AtMostOnceWithoutStop == stops = 0 => \A f \in Files : json_rows[f] <= 1

\* C24 for the names whose entry reached the procesados file
AtMostOnceWhenSaved ==
    [][\A f \in Files :
          f \in DOMAIN entries_file => json_rows'[f] = json_rows[f]]_vars

(***************************************************************************)
(* The two recoveries side by side                                         *)
(***************************************************************************)
\* the scraper's recovery failed: it raises where the analyzer returns None
ScraperFailed(out) == out.kind = "raise"

\* C23: on every text analyzer.clean_json_string and
\* scraper_ia_pdf_a_json.clean_json_string both fail or both succeed with
\* the same value.
C23_RecoveriesAgree ==
    pc \in {"scraped", "done"} /\ resp_kind = "text" =>
        \/ Failed(parsed) /\ ScraperFailed(scraped)
        \/ /\ ~Failed(parsed)
           /\ ~ScraperFailed(scraped)
           /\ parsed.val = scraped.val

====
